---- MODULE Spec2Model ----
(***************************************************************************)
(* lazypueue: the session controller (src/src/app.rs), the event loop that *)
(* drives it (src/src/main.rs), the key tables (src/src/events.rs), the    *)
(* text input buffer (src/src/ui/input.rs) and the requests of the pueue   *)
(* client (src/src/pueue_client.rs).                                       *)
(*                                                                         *)
(* Option<T> is a sequence of length at most one: None is <<>> and Some(x) *)
(* is <<x>>.  A step of the model is one completed step of the loop: the   *)
(* controller is single threaded and every call to the daemon blocks, so   *)
(* a handler and the calls it makes are one atomic action.                 *)
(***************************************************************************)
EXTENDS Integers, Sequences, FiniteSets, TLC

\* ------------------------------------------------------------------ bounds

\* Task ids of the states the projector and validate_selection are given: 1..MaxTaskId.
MaxTaskId == 2
\* Longest text the input buffer is driven to.
MaxLen == 1
\* Longest text the input buffer is driven to when the buffer is checked on its own.
MaxText == 3
\* Largest scroll offset the log viewer is driven to by single steps.
MaxScroll == 1

\* --------------------------------------------------------------- data model

None == <<>>
Some(x) == <<x>>
IsSome(o) == o # <<>>
Unwrap(o) == o[1]

\* Group names in lexicographic (byte) order, as String's Ord gives it.
NameOrder == <<"build", "default", "zeta">>
GroupNames == {NameOrder[i] : i \in 1..Len(NameOrder)}
NameRank(g) == CHOOSE i \in 1..Len(NameOrder) : NameOrder[i] = g

TaskIds == 1..MaxTaskId

\* pueue_lib's State as far as the controller reads it: [groups, tasks], each a map
\* (a function on the keys present); a group is [status, parallel_tasks] and a task
\* is [group, status].
GroupOf(status, parallel_tasks) == [status |-> status, parallel_tasks |-> parallel_tasks]
TaskOf(group, status) == [group |-> group, status |-> status]

\* TreeSelection and TreeItem: two enums of the same shape.
SelGroup(name) == <<"Group", name>>
SelTask(group, task_id) == <<"Task", group, task_id>>
ItemGroup(name) == <<"GroupItem", name>>
ItemTask(group, task_id) == <<"TaskItem", group, task_id>>

\* ------------------------------------------------------------- projector

\* The elements of a finite set of integers, ascending (Vec::sort on usize).
RECURSIVE SortIds(_)
SortIds(S) ==
    IF S = {} THEN <<>>
    ELSE LET m == CHOOSE x \in S : \A y \in S : x <= y
         IN <<m>> \o SortIds(S \ {m})

\* The elements of a finite set of names in lexicographic order (Vec::sort on String).
RECURSIVE SortNames(_)
SortNames(S) ==
    IF S = {} THEN <<>>
    ELSE LET m == CHOOSE x \in S : \A y \in S : NameRank(x) <= NameRank(y)
         IN <<m>> \o SortNames(S \ {m})

\* Vec::remove(pos) and Vec::insert(0, x).
RemoveAt(s, pos) == SubSeq(s, 1, pos - 1) \o SubSeq(s, pos + 1, Len(s))

\* A faulty get_group_list: the sort without the relocation of "default".
get_group_list_sorted(st) ==
    IF st = None THEN <<>> ELSE SortNames(DOMAIN Unwrap(st).groups)

\* App::get_group_list: the names sorted, then "default" moved to the front.
get_group_list(st) ==
    IF st = None THEN <<>>
    ELSE LET groups == SortNames(DOMAIN Unwrap(st).groups)
         IN IF \E pos \in 1..Len(groups) : groups[pos] = "default"
            THEN LET pos == CHOOSE p \in 1..Len(groups) : groups[p] = "default"
                 IN <<"default">> \o RemoveAt(groups, pos)
            ELSE groups

tasks_in_group(s, group_name) ==
    SortIds({id \in DOMAIN s.tasks : s.tasks[id].group = group_name})

RECURSIVE tree_of(_, _, _)
tree_of(s, collapsed, groups) ==
    IF groups = <<>> THEN <<>>
    ELSE LET group_name == Head(groups)
             ids == tasks_in_group(s, group_name)
             rows == IF group_name \in collapsed THEN <<>>
                     ELSE [i \in 1..Len(ids) |-> ItemTask(group_name, ids[i])]
         IN <<ItemGroup(group_name)>> \o rows \o tree_of(s, collapsed, Tail(groups))

get_tree_items(st, collapsed) ==
    IF st = None THEN <<>>
    ELSE tree_of(Unwrap(st), collapsed, get_group_list(st))

\* ------------------------------------------------------------- selection

\* The match of get_selection_position and of validate_selection's is_valid.
Matches(sel, item) ==
    \/ sel[1] = "Group" /\ item[1] = "GroupItem" /\ sel[2] = item[2]
    \/ sel[1] = "Task" /\ item[1] = "TaskItem" /\ sel[2] = item[2] /\ sel[3] = item[3]

get_selection_position(sel, items) ==
    IF \E i \in 1..Len(items) : Matches(sel, items[i])
    THEN Some(CHOOSE i \in 1..Len(items) :
                 Matches(sel, items[i]) /\ \A j \in 1..(i - 1) : ~Matches(sel, items[j]))
    ELSE None

select_tree_item(item) ==
    IF item[1] = "GroupItem" THEN SelGroup(item[2]) ELSE SelTask(item[2], item[3])

\* A faulty validate_selection: a selection that is gone is kept.
validate_selection_keep(st, collapsed, sel) ==
    IF get_tree_items(st, collapsed) = <<>> THEN SelGroup("default") ELSE sel

\* A faulty validate_selection: the selection goes to the first item every time.
validate_selection_reset(st, collapsed, sel) ==
    LET tree_items == get_tree_items(st, collapsed)
    IN IF tree_items = <<>> THEN SelGroup("default")
       ELSE select_tree_item(tree_items[1])

\* A faulty validate_selection: a task that is not found falls back to its group,
\* whether the tree has that group or not.
validate_selection_parent(st, collapsed, sel) ==
    LET tree_items == get_tree_items(st, collapsed)
    IN IF tree_items = <<>> THEN SelGroup("default")
       ELSE IF \E i \in 1..Len(tree_items) : Matches(sel, tree_items[i]) THEN sel
       ELSE IF sel[1] = "Task" THEN SelGroup(sel[2])
       ELSE select_tree_item(tree_items[1])

validate_selection(st, collapsed, sel) ==
    LET tree_items == get_tree_items(st, collapsed)
    IN IF tree_items = <<>> THEN SelGroup("default")
       ELSE IF \E i \in 1..Len(tree_items) : Matches(sel, tree_items[i]) THEN sel
       ELSE select_tree_item(tree_items[1])

get_selected_task_id(sel) == IF sel[1] = "Task" THEN Some(sel[3]) ELSE None
get_selected_group(sel) == sel[2]

get_task_list(st) == IF st = None THEN <<>> ELSE SortIds(DOMAIN Unwrap(st).tasks)

\* ------------------------------------------------------------ text input

\* Characters typed in a checked run, and the texts they make.
Chars == {"a", " "}
Texts == UNION {[1..n -> Chars] : n \in 0..MaxLen}
IsWhitespace(c) == c = " "
\* str::trim().is_empty()
IsBlank(text) == \A i \in 1..Len(text) : IsWhitespace(text[i])

\* The buffer is a Rust String: `value` is the sequence of its characters and
\* every index the String methods take, the cursor included, counts UTF-8 bytes.
\* char::len_utf8, for the characters typed in a checked run.
len_utf8(c) == IF c = "é" THEN 2 ELSE 1
\* String::len: the length in bytes.
RECURSIVE str_len(_)
str_len(value) == IF value = <<>> THEN 0 ELSE len_utf8(Head(value)) + str_len(Tail(value))
\* str::is_char_boundary: idx is the start of a character or the end of the string.
is_char_boundary(value, idx) == \E k \in 0..Len(value) : str_len(SubSeq(value, 1, k)) = idx
\* String::insert(idx, c), defined where it does not panic: idx is a character boundary.
String_insert(value, idx, c) ==
    LET k == CHOOSE k \in 0..Len(value) : str_len(SubSeq(value, 1, k)) = idx
    IN SubSeq(value, 1, k) \o <<c>> \o SubSeq(value, k + 1, Len(value))
\* String::remove(idx), defined where it does not panic: a character starts at idx.
String_remove(value, idx) ==
    LET k == CHOOSE k \in 0..Len(value) : str_len(SubSeq(value, 1, k)) = idx
    IN RemoveAt(value, k + 1)

TextInput_new == [value |-> <<>>, cursor |-> 0]
TextInput_with_value(value) == [value |-> value, cursor |-> str_len(value)]
TextInput_insert(t, c) ==
    [value |-> String_insert(t.value, t.cursor, c), cursor |-> t.cursor + 1]
TextInput_delete_char(t) ==
    IF t.cursor > 0
    THEN [value |-> String_remove(t.value, t.cursor - 1), cursor |-> t.cursor - 1]
    ELSE t
TextInput_delete_forward(t) ==
    IF t.cursor < str_len(t.value)
    THEN [t EXCEPT !.value = String_remove(t.value, t.cursor)]
    ELSE t
TextInput_move_left(t) == IF t.cursor > 0 THEN [t EXCEPT !.cursor = t.cursor - 1] ELSE t
TextInput_move_right(t) ==
    IF t.cursor < str_len(t.value) THEN [t EXCEPT !.cursor = t.cursor + 1] ELSE t
TextInput_move_start(t) == [t EXCEPT !.cursor = 0]
TextInput_move_end(t) == [t EXCEPT !.cursor = str_len(t.value)]
\* A faulty clear: the cursor goes to the start and the text stays.
TextInput_clear_cursor(t) == [t EXCEPT !.cursor = 0]
TextInput_clear(t) == [value |-> <<>>, cursor |-> 0]

\* ---------------------------------------------------------------- requests

\* The requests of the client, as the tuple <<kind, arguments...>>.
ReqStatus == <<"Status">>
ReqKill(task_id) == <<"Kill", task_id>>
ReqLog(task_id) == <<"Log", task_id>>
ReqRemove(task_id) == <<"Remove", task_id>>
ReqPauseTasks(task_id) == <<"PauseTasks", task_id>>
ReqStartTasks(task_id) == <<"StartTasks", task_id>>
ReqEditRequest(task_id) == <<"EditRequest", task_id>>
ReqEditRestore(task_id) == <<"EditRestore", task_id>>
ReqEditSubmit(editable) == <<"EditedTasks", editable.id, editable.original_command>>
ReqStash(task_id) == <<"Stash", task_id>>
ReqEnqueue(task_id) == <<"Enqueue", task_id>>
ReqSwitch(task_id_1, task_id_2) == <<"Switch", task_id_1, task_id_2>>
ReqParallel(group, limit) == <<"Parallel", group, limit>>
\* Requests whose client method is called by app.rs and is not in pueue_client.rs.
ReqStartGroup(group) == <<"StartGroup", group>>
ReqPauseGroup(group) == <<"PauseGroup", group>>
ReqRestart(task_id, task) == <<"Restart", task_id, task.group>>
ReqClean(successful_only, group) == <<"Clean", successful_only, group>>
ReqAdd(command, group) == <<"Add", command, group>>

\* One call: the request, whether the client returned Ok, and for a Status request
\* the Option of the state it returned.
Call(req, ok) == [req |-> req, ok |-> ok, reply |-> <<>>]
StatusCall(reply) == [req |-> ReqStatus, ok |-> reply # <<>>, reply |-> reply]

\* The kinds of the requests that change the daemon's state.
MutatingKinds ==
    {"Kill", "PauseTasks", "StartTasks", "StartGroup", "PauseGroup", "Restart", "Clean",
     "Add", "Remove", "EditedTasks", "Stash", "Enqueue", "Switch", "Parallel"}

\* ------------------------------------------------------------------- state

VARIABLES
    state,            \* App.state: Option<State>
    selection,        \* App.selection
    collapsed_groups, \* App.collapsed_groups
    error_message,    \* App.error_message: Option<String>
    show_log_modal,   \* App.show_log_modal
    log_content,      \* App.log_content: Option<String>
    log_scroll,       \* App.log_scroll
    follow_mode,      \* App.follow_mode
    input_mode,       \* App.input_mode: Option<InputMode>
    text_input,       \* App.text_input
    confirm_delete,   \* App.confirm_delete: Option<usize>
    sent,             \* the calls made to the daemon in the last step, in order
    run               \* run_app: "start", "loop", "quit" (Ok) or "error" (Err)

vars == <<state, selection, collapsed_groups, error_message, show_log_modal, log_content,
          log_scroll, follow_mode, input_mode, text_input, confirm_delete, sent, run>>

logVars == <<show_log_modal, log_content, log_scroll, follow_mode>>
inputVars == <<input_mode, text_input>>

\* usize::MAX, the sentinel of "pinned to the bottom" (a stand-in of TLC's integer width).
UsizeMax == 2147483647
\* The page of ScrollLogPageUp and ScrollLogPageDown.
PageSize == 20
\* A faulty saturating_sub: the subtraction without the floor.
saturating_sub_unfloored(x, n) == x - n
saturating_sub(x, n) == IF x < n THEN 0 ELSE x - n
saturating_add(x, n) == IF x > UsizeMax - n THEN UsizeMax ELSE x + n

InputAddTask == <<"AddTask">>
InputEditTask(editable) == <<"EditTask", editable>>

\* What the daemon may answer to a Status request: a state, or a failure (<<>>).
\* The daemon of a checked session is found in one of these states: every kind of
\* task status and group status, one and two groups, tasks sharing a group and
\* not, three tasks that can be switched, and the state of no group at all.
Snapshots ==
    { [groups |-> << >>, tasks |-> << >>],
      [groups |-> [g \in {"default", "build"} |->
                      IF g = "default" THEN GroupOf("Running", 1) ELSE GroupOf("Paused", 2)],
       tasks |-> <<TaskOf("default", "Queued"), TaskOf("build", "Running")>>],
      [groups |-> [g \in {"default"} |-> GroupOf("Paused", 2)],
       tasks |-> <<TaskOf("default", "Stashed"), TaskOf("default", "Queued"),
                   TaskOf("default", "Queued")>>],
      [groups |-> [g \in {"default", "build"} |-> GroupOf("Running", 1)],
       tasks |-> <<TaskOf("default", "Running"), TaskOf("build", "Stashed")>>],
      [groups |-> [g \in {"default", "build"} |-> GroupOf("Running", 2)],
       tasks |-> <<TaskOf("build", "Paused"), TaskOf("build", "Done")>>],
      [groups |-> [g \in {"build"} |-> GroupOf("Running", 1)],
       tasks |-> [id \in {2} |-> TaskOf("build", "Locked")]] }
StatusReplies == {Some(s) : s \in Snapshots} \cup {None}
\* The text of a log: whose it is and which revision of the growing output.
LogRevs == {1, 2}
LogTexts(task_id) == {<<"log", task_id, rev>> : rev \in LogRevs}
\* The command of an editable task the daemon returns.
EditableCommands == {c \in Texts : c # <<>> /\ ~IsBlank(c)}

\* A faulty Init: the controller is created in follow mode.
Init_following ==
    /\ state = None
    /\ selection = SelGroup("default")
    /\ collapsed_groups = {}
    /\ error_message = None
    /\ show_log_modal = FALSE
    /\ log_content = None
    /\ log_scroll = 0
    /\ follow_mode = TRUE
    /\ input_mode = None
    /\ text_input = TextInput_new
    /\ confirm_delete = None
    /\ sent = <<>>
    /\ run = "start"

Init ==
    /\ state = None
    /\ selection = SelGroup("default")
    /\ collapsed_groups = {}
    /\ error_message = None
    /\ show_log_modal = FALSE
    /\ log_content = None
    /\ log_scroll = 0
    /\ follow_mode = FALSE
    /\ input_mode = None
    /\ text_input = TextInput_new
    /\ confirm_delete = None
    /\ sent = <<>>
    /\ run = "start"

\* ----------------------------------------------------------------- refresh

\* A faulty refresh: a failed fetch drops the cached state.
refresh_clearing(reply) ==
    IF IsSome(reply)
    THEN /\ state' = reply
         /\ error_message' = None
         /\ selection' = validate_selection(reply, collapsed_groups, selection)
    ELSE /\ error_message' = Some("Failed to connect to pueue daemon")
         /\ state' = None
         /\ UNCHANGED selection

\* A faulty refresh: a fetched state leaves the banner standing.
refresh_sticky(reply) ==
    IF IsSome(reply)
    THEN /\ state' = reply
         /\ selection' = validate_selection(reply, collapsed_groups, selection)
         /\ UNCHANGED error_message
    ELSE /\ error_message' = Some("Failed to connect to pueue daemon")
         /\ UNCHANGED <<state, selection>>

\* App::refresh, given the answer to its Status request.  It always returns Ok.
refresh(reply) ==
    IF IsSome(reply)
    THEN /\ state' = reply
         /\ error_message' = None
         /\ selection' = validate_selection(reply, collapsed_groups, selection)
    ELSE /\ error_message' = Some("Failed to connect to pueue daemon")
         /\ UNCHANGED <<state, selection>>

\* The selection after refresh(reply).
SelectionAfter(reply) ==
    IF IsSome(reply) THEN validate_selection(reply, collapsed_groups, selection) ELSE selection

\* -------------------------------------------------------- handle_action

Cached == Unwrap(state)
\* The selected task's id if a task is selected and the cached snapshot holds it.
SelectedCachedTask ==
    IF IsSome(get_selected_task_id(selection)) /\ IsSome(state)
       /\ Unwrap(get_selected_task_id(selection)) \in DOMAIN Cached.tasks
    THEN get_selected_task_id(selection)
    ELSE None

\* A step that calls nothing and returns Ok(false).
NoCall == sent' = <<>> /\ UNCHANGED run

\* A faulty CallOrBanner: no refresh after the call.
CallOrBanner_nofetch(req, banner) ==
    \E ok \in BOOLEAN :
        /\ error_message' = IF ok THEN error_message ELSE Some(banner)
        /\ sent' = <<Call(req, ok)>>
        /\ UNCHANGED <<state, selection, run>>

\* `if let Err(e) = call { banner } else { refresh }`
CallOrBanner(req, banner) ==
    \E ok \in BOOLEAN :
        IF ok
        THEN \E reply \in StatusReplies :
                /\ refresh(reply)
                /\ sent' = <<Call(req, TRUE), StatusCall(reply)>>
                /\ UNCHANGED run
        ELSE /\ error_message' = Some(banner)
             /\ sent' = <<Call(req, FALSE)>>
             /\ UNCHANGED <<state, selection, run>>

\* `call?; refresh?`: the error of the call is returned to run_app, which returns it.
CallOrReturn(req) ==
    \E ok \in BOOLEAN :
        IF ok
        THEN \E reply \in StatusReplies :
                /\ refresh(reply)
                /\ sent' = <<Call(req, TRUE), StatusCall(reply)>>
                /\ UNCHANGED run
        ELSE /\ run' = "error"
             /\ sent' = <<Call(req, FALSE)>>
             /\ UNCHANGED <<state, selection, error_message>>

\* A faulty NavigateUp: from the first item it goes round to the last.
NavigateUp_wrap ==
    LET tree_items == get_tree_items(state, collapsed_groups)
        current_pos == get_selection_position(selection, tree_items)
    IN /\ selection' = IF IsSome(current_pos)
                       THEN select_tree_item(tree_items[
                                IF Unwrap(current_pos) > 1 THEN Unwrap(current_pos) - 1
                                ELSE Len(tree_items)])
                       ELSE selection
       /\ NoCall
       /\ UNCHANGED <<state, collapsed_groups, error_message, logVars, inputVars, confirm_delete>>

NavigateUp ==
    LET tree_items == get_tree_items(state, collapsed_groups)
        current_pos == get_selection_position(selection, tree_items)
    IN /\ selection' = IF IsSome(current_pos) /\ Unwrap(current_pos) > 1
                       THEN select_tree_item(tree_items[Unwrap(current_pos) - 1])
                       ELSE selection
       /\ NoCall
       /\ UNCHANGED <<state, collapsed_groups, error_message, logVars, inputVars, confirm_delete>>

NavigateDown ==
    LET tree_items == get_tree_items(state, collapsed_groups)
        current_pos == get_selection_position(selection, tree_items)
    IN /\ selection' = IF IsSome(current_pos) /\ Unwrap(current_pos) + 1 <= Len(tree_items)
                       THEN select_tree_item(tree_items[Unwrap(current_pos) + 1])
                       ELSE selection
       /\ NoCall
       /\ UNCHANGED <<state, collapsed_groups, error_message, logVars, inputVars, confirm_delete>>

NavigateTop ==
    LET tree_items == get_tree_items(state, collapsed_groups)
    IN /\ selection' = IF tree_items # <<>> THEN select_tree_item(tree_items[1]) ELSE selection
       /\ NoCall
       /\ UNCHANGED <<state, collapsed_groups, error_message, logVars, inputVars, confirm_delete>>

NavigateBottom ==
    LET tree_items == get_tree_items(state, collapsed_groups)
    IN /\ selection' = IF tree_items # <<>>
                       THEN select_tree_item(tree_items[Len(tree_items)])
                       ELSE selection
       /\ NoCall
       /\ UNCHANGED <<state, collapsed_groups, error_message, logVars, inputVars, confirm_delete>>

KillTask ==
    /\ IF IsSome(get_selected_task_id(selection))
       THEN CallOrReturn(ReqKill(Unwrap(get_selected_task_id(selection))))
       ELSE NoCall /\ UNCHANGED <<state, selection, error_message>>
    /\ UNCHANGED <<collapsed_groups, logVars, inputVars, confirm_delete>>

TogglePause ==
    LET group_name == get_selected_group(selection)
    IN /\ IF IsSome(state)
          THEN IF group_name \in DOMAIN Cached.groups
               THEN CallOrReturn(IF Cached.groups[group_name].status = "Paused"
                                 THEN ReqStartGroup(group_name)
                                 ELSE ReqPauseGroup(group_name))
               ELSE \E reply \in StatusReplies :
                       /\ refresh(reply)
                       /\ sent' = <<StatusCall(reply)>>
                       /\ UNCHANGED run
          ELSE NoCall /\ UNCHANGED <<state, selection, error_message>>
       /\ UNCHANGED <<collapsed_groups, logVars, inputVars, confirm_delete>>

Refresh ==
    /\ \E reply \in StatusReplies :
          /\ refresh(reply)
          /\ sent' = <<StatusCall(reply)>>
    /\ UNCHANGED <<collapsed_groups, logVars, inputVars, confirm_delete, run>>

\* `match client.get_log(task_id)` of ViewLogs, FollowLogs and ExpandGroup.
OpenLog(task_id, scroll, follow) ==
    \E ok \in BOOLEAN :
        /\ sent' = <<Call(ReqLog(task_id), ok)>>
        /\ IF ok
           THEN /\ \E content \in LogTexts(task_id) : log_content' = Some(content)
                /\ log_scroll' = scroll
                /\ show_log_modal' = TRUE
                /\ follow_mode' = follow
                /\ UNCHANGED error_message
           ELSE /\ error_message' = Some("Failed to get logs")
                /\ UNCHANGED logVars

ViewLogs ==
    /\ IF ~show_log_modal
       THEN IF IsSome(get_selected_task_id(selection))
            THEN OpenLog(Unwrap(get_selected_task_id(selection)), 0, follow_mode)
            ELSE sent' = <<>> /\ UNCHANGED <<logVars, error_message>>
       ELSE /\ show_log_modal' = FALSE
            /\ log_content' = None
            /\ follow_mode' = FALSE
            /\ sent' = <<>>
            /\ UNCHANGED <<log_scroll, error_message>>
    /\ UNCHANGED <<state, selection, collapsed_groups, inputVars, confirm_delete, run>>

\* A faulty CloseLogs: the viewer is closed and the text is kept.
CloseLogs_keep ==
    /\ show_log_modal' = FALSE
    /\ log_scroll' = 0
    /\ follow_mode' = FALSE
    /\ NoCall
    /\ UNCHANGED <<state, selection, collapsed_groups, error_message, log_content,
                   inputVars, confirm_delete>>

CloseLogs ==
    /\ show_log_modal' = FALSE
    /\ log_content' = None
    /\ log_scroll' = 0
    /\ follow_mode' = FALSE
    /\ NoCall
    /\ UNCHANGED <<state, selection, collapsed_groups, error_message, inputVars, confirm_delete>>

\* The offsets a checked run drives the viewer to: within MaxScroll of the top or of
\* the saturated end.
ScrollRange == (0..MaxScroll) \cup {UsizeMax - d : d \in 0..MaxScroll}

\* An offset of usize outside ScrollRange is not followed further.
ScrollTo(offset) ==
    /\ offset \in ScrollRange \/ offset \notin 0..UsizeMax
    /\ log_scroll' = offset
    /\ NoCall
    /\ UNCHANGED <<state, selection, collapsed_groups, error_message, show_log_modal,
                   log_content, follow_mode, inputVars, confirm_delete>>

ScrollLogUp ==
    ScrollTo(IF log_scroll > 0 THEN saturating_sub(log_scroll, 1) ELSE log_scroll)
ScrollLogDown == ScrollTo(saturating_add(log_scroll, 1))
ScrollLogPageUp == ScrollTo(saturating_sub(log_scroll, PageSize))
ScrollLogPageDown == ScrollTo(saturating_add(log_scroll, PageSize))

RestartTask ==
    /\ IF IsSome(SelectedCachedTask)
       THEN CallOrBanner(ReqRestart(Unwrap(SelectedCachedTask),
                                    Cached.tasks[Unwrap(SelectedCachedTask)]),
                         "Failed to restart task")
       ELSE NoCall /\ UNCHANGED <<state, selection, error_message>>
    /\ UNCHANGED <<collapsed_groups, logVars, inputVars, confirm_delete>>

CleanFinished ==
    /\ CallOrBanner(ReqClean(FALSE, Some(get_selected_group(selection))),
                    "Failed to clean tasks")
    /\ UNCHANGED <<collapsed_groups, logVars, inputVars, confirm_delete>>

\* A faulty FollowLogs: with the viewer open it toggles and fetches the log again.
FollowLogs_refetch ==
    /\ IF IsSome(get_selected_task_id(selection))
       THEN IF show_log_modal
            THEN /\ follow_mode' = ~follow_mode
                 /\ \E ok \in BOOLEAN :
                       sent' = <<Call(ReqLog(Unwrap(get_selected_task_id(selection))), ok)>>
                 /\ UNCHANGED <<show_log_modal, log_content, log_scroll, error_message>>
            ELSE OpenLog(Unwrap(get_selected_task_id(selection)), UsizeMax, TRUE)
       ELSE sent' = <<>> /\ UNCHANGED <<logVars, error_message>>
    /\ UNCHANGED <<state, selection, collapsed_groups, inputVars, confirm_delete, run>>

FollowLogs ==
    /\ IF IsSome(get_selected_task_id(selection))
       THEN IF show_log_modal
            THEN /\ follow_mode' = ~follow_mode
                 /\ sent' = <<>>
                 /\ UNCHANGED <<show_log_modal, log_content, log_scroll, error_message>>
            ELSE OpenLog(Unwrap(get_selected_task_id(selection)), UsizeMax, TRUE)
       ELSE sent' = <<>> /\ UNCHANGED <<logVars, error_message>>
    /\ UNCHANGED <<state, selection, collapsed_groups, inputVars, confirm_delete, run>>

\* The banner of a failed call of ToggleTaskPause is set and the refresh follows in
\* either case; the refresh writes error_message once more.
\* A faulty ToggleTaskPause: a queued or stashed task is left alone.
ToggleTaskPause_held ==
    /\ IF IsSome(SelectedCachedTask)
       THEN LET task_id == Unwrap(SelectedCachedTask)
                status == Cached.tasks[task_id].status
            IN \E reply \in StatusReplies :
                  /\ refresh(reply)
                  /\ UNCHANGED run
                  /\ IF status = "Paused"
                     THEN \E ok \in BOOLEAN :
                             sent' = <<Call(ReqStartTasks(task_id), ok),
                                       StatusCall(reply)>>
                     ELSE IF status = "Running"
                     THEN \E ok \in BOOLEAN :
                             sent' = <<Call(ReqPauseTasks(task_id), ok),
                                       StatusCall(reply)>>
                     ELSE sent' = <<StatusCall(reply)>>
       ELSE NoCall /\ UNCHANGED <<state, selection, error_message>>
    /\ UNCHANGED <<collapsed_groups, logVars, inputVars, confirm_delete>>

ToggleTaskPause ==
    /\ IF IsSome(SelectedCachedTask)
       THEN LET task_id == Unwrap(SelectedCachedTask)
                status == Cached.tasks[task_id].status
            IN \E reply \in StatusReplies :
                  /\ refresh(reply)
                  /\ UNCHANGED run
                  /\ IF status \in {"Paused", "Queued", "Stashed"}
                     THEN \E ok \in BOOLEAN :
                             sent' = <<Call(ReqStartTasks(task_id), ok),
                                       StatusCall(reply)>>
                     ELSE IF status = "Running"
                     THEN \E ok \in BOOLEAN :
                             sent' = <<Call(ReqPauseTasks(task_id), ok),
                                       StatusCall(reply)>>
                     ELSE sent' = <<StatusCall(reply)>>
       ELSE NoCall /\ UNCHANGED <<state, selection, error_message>>
    /\ UNCHANGED <<collapsed_groups, logVars, inputVars, confirm_delete>>

StartAddTask ==
    /\ text_input' = TextInput_clear(text_input)
    /\ input_mode' = Some(InputAddTask)
    /\ NoCall
    /\ UNCHANGED <<state, selection, collapsed_groups, error_message, logVars, confirm_delete>>

\* A faulty StartEditTask: the buffer gets the command with the cursor at its start.
StartEditTask_home ==
    /\ IF IsSome(get_selected_task_id(selection))
       THEN LET task_id == Unwrap(get_selected_task_id(selection))
            IN \E ok \in BOOLEAN :
                  /\ sent' = <<Call(ReqEditRequest(task_id), ok)>>
                  /\ IF ok
                     THEN \E command \in EditableCommands :
                             /\ text_input' = [value |-> command, cursor |-> 0]
                             /\ input_mode' = Some(InputEditTask(
                                    [id |-> task_id, original_command |-> command]))
                             /\ UNCHANGED error_message
                     ELSE /\ error_message' = Some("Failed to edit task")
                          /\ UNCHANGED inputVars
       ELSE sent' = <<>> /\ UNCHANGED <<inputVars, error_message>>
    /\ UNCHANGED <<state, selection, collapsed_groups, logVars, confirm_delete, run>>

StartEditTask ==
    /\ IF IsSome(get_selected_task_id(selection))
       THEN LET task_id == Unwrap(get_selected_task_id(selection))
            IN \E ok \in BOOLEAN :
                  /\ sent' = <<Call(ReqEditRequest(task_id), ok)>>
                  /\ IF ok
                     THEN \E command \in EditableCommands :
                             /\ text_input' = TextInput_with_value(command)
                             /\ input_mode' = Some(InputEditTask(
                                    [id |-> task_id, original_command |-> command]))
                             /\ UNCHANGED error_message
                     ELSE /\ error_message' = Some("Failed to edit task")
                          /\ UNCHANGED inputVars
       ELSE sent' = <<>> /\ UNCHANGED <<inputVars, error_message>>
    /\ UNCHANGED <<state, selection, collapsed_groups, logVars, confirm_delete, run>>

\* A faulty RemoveTask: a running task is not refused.
RemoveTask_unguarded ==
    /\ confirm_delete' = IF IsSome(SelectedCachedTask) THEN SelectedCachedTask
                         ELSE confirm_delete
    /\ NoCall
    /\ UNCHANGED <<state, selection, collapsed_groups, error_message, logVars, inputVars>>

RemoveTask ==
    /\ confirm_delete' =
          IF IsSome(SelectedCachedTask)
             /\ Cached.tasks[Unwrap(SelectedCachedTask)].status # "Running"
          THEN SelectedCachedTask
          ELSE confirm_delete
    /\ NoCall
    /\ UNCHANGED <<state, selection, collapsed_groups, error_message, logVars, inputVars>>

\* A faulty ConfirmAction: the pending id is kept when the removal fails.
ConfirmAction_keep ==
    /\ IF IsSome(confirm_delete)
       THEN /\ CallOrBanner(ReqRemove(Unwrap(confirm_delete)), "Failed to remove task")
            /\ confirm_delete' = IF IsSome(error_message') /\ Len(sent') = 1
                                 THEN confirm_delete ELSE None
       ELSE NoCall /\ UNCHANGED <<state, selection, error_message, confirm_delete>>
    /\ UNCHANGED <<collapsed_groups, logVars, inputVars>>

ConfirmAction ==
    /\ confirm_delete' = None
    /\ IF IsSome(confirm_delete)
       THEN CallOrBanner(ReqRemove(Unwrap(confirm_delete)), "Failed to remove task")
       ELSE NoCall /\ UNCHANGED <<state, selection, error_message>>
    /\ UNCHANGED <<collapsed_groups, logVars, inputVars>>

CancelConfirm ==
    /\ confirm_delete' = None
    /\ NoCall
    /\ UNCHANGED <<state, selection, collapsed_groups, error_message, logVars, inputVars>>

\* A faulty SubmitInput: the task is added to "default" whatever is selected.
SubmitInput_default ==
    /\ IF IsSome(input_mode)
       THEN LET mode == Unwrap(input_mode)
                command == text_input.value
            IN /\ input_mode' = None
               /\ text_input' = TextInput_clear(text_input)
               /\ IF ~IsBlank(command)
                  THEN IF mode[1] = "AddTask"
                       THEN CallOrBanner(ReqAdd(command, "default"), "Failed to add task")
                       ELSE CallOrBanner(
                                ReqEditSubmit([mode[2] EXCEPT !.original_command = command]),
                                "Failed to save edit")
                  ELSE NoCall /\ UNCHANGED <<state, selection, error_message>>
       ELSE NoCall /\ UNCHANGED <<state, selection, error_message, inputVars>>
    /\ UNCHANGED <<collapsed_groups, logVars, confirm_delete>>

SubmitInput ==
    /\ IF IsSome(input_mode)
       THEN LET mode == Unwrap(input_mode)
                command == text_input.value
            IN /\ input_mode' = None
               /\ text_input' = TextInput_clear(text_input)
               /\ IF ~IsBlank(command)
                  THEN IF mode[1] = "AddTask"
                       THEN CallOrBanner(ReqAdd(command, get_selected_group(selection)),
                                         "Failed to add task")
                       ELSE CallOrBanner(
                                ReqEditSubmit([mode[2] EXCEPT !.original_command = command]),
                                "Failed to save edit")
                  ELSE NoCall /\ UNCHANGED <<state, selection, error_message>>
       ELSE NoCall /\ UNCHANGED <<state, selection, error_message, inputVars>>
    /\ UNCHANGED <<collapsed_groups, logVars, confirm_delete>>

\* A faulty CancelInput: a failed restore is reported in the banner.
CancelInput_banner ==
    /\ IF IsSome(input_mode)
       THEN /\ input_mode' = None
            /\ text_input' = TextInput_clear(text_input)
            /\ IF Unwrap(input_mode)[1] = "EditTask"
               THEN \E ok \in BOOLEAN :
                       /\ sent' = <<Call(ReqEditRestore(Unwrap(input_mode)[2].id), ok)>>
                       /\ error_message' =
                             IF ok THEN error_message ELSE Some("Failed to restore task")
               ELSE sent' = <<>> /\ UNCHANGED error_message
       ELSE sent' = <<>> /\ UNCHANGED <<inputVars, error_message>>
    /\ UNCHANGED <<state, selection, collapsed_groups, logVars, confirm_delete, run>>

CancelInput ==
    /\ IF IsSome(input_mode)
       THEN /\ input_mode' = None
            /\ text_input' = TextInput_clear(text_input)
            /\ IF Unwrap(input_mode)[1] = "EditTask"
               THEN \E ok \in BOOLEAN :
                       sent' = <<Call(ReqEditRestore(Unwrap(input_mode)[2].id), ok)>>
               ELSE sent' = <<>>
       ELSE sent' = <<>> /\ UNCHANGED inputVars
    /\ UNCHANGED <<state, selection, collapsed_groups, error_message, logVars,
                   confirm_delete, run>>

EditText(t) ==
    /\ text_input' = t
    /\ NoCall
    /\ UNCHANGED <<state, selection, collapsed_groups, error_message, logVars, input_mode,
                   confirm_delete>>

\* The text is driven up to MaxLen characters.
InputChar(c) == Len(text_input.value) < MaxLen /\ EditText(TextInput_insert(text_input, c))
InputBackspace == EditText(TextInput_delete_char(text_input))
InputDelete == EditText(TextInput_delete_forward(text_input))
InputLeft == EditText(TextInput_move_left(text_input))
InputRight == EditText(TextInput_move_right(text_input))
InputHome == EditText(TextInput_move_start(text_input))
InputEnd == EditText(TextInput_move_end(text_input))

\* A faulty StashTask: a selected task is stashed whatever its status.
StashTask_any ==
    /\ IF IsSome(SelectedCachedTask)
       THEN CallOrBanner(ReqStash(Unwrap(SelectedCachedTask)), "Failed to stash task")
       ELSE NoCall /\ UNCHANGED <<state, selection, error_message>>
    /\ UNCHANGED <<collapsed_groups, logVars, inputVars, confirm_delete>>

StashTask ==
    /\ IF IsSome(SelectedCachedTask)
          /\ Cached.tasks[Unwrap(SelectedCachedTask)].status = "Queued"
       THEN CallOrBanner(ReqStash(Unwrap(SelectedCachedTask)), "Failed to stash task")
       ELSE NoCall /\ UNCHANGED <<state, selection, error_message>>
    /\ UNCHANGED <<collapsed_groups, logVars, inputVars, confirm_delete>>

\* A faulty EnqueueTask: the cached task is marked Queued at once when the fetch
\* after the call fails.
EnqueueTask_optimistic ==
    /\ IF IsSome(SelectedCachedTask)
          /\ Cached.tasks[Unwrap(SelectedCachedTask)].status = "Stashed"
       THEN LET task_id == Unwrap(SelectedCachedTask)
            IN \E ok \in BOOLEAN :
                  IF ok
                  THEN \E reply \in StatusReplies :
                          /\ sent' = <<Call(ReqEnqueue(task_id), TRUE), StatusCall(reply)>>
                          /\ UNCHANGED run
                          /\ IF IsSome(reply)
                             THEN refresh(reply)
                             ELSE /\ error_message' = Some("Failed to connect to pueue daemon")
                                  /\ state' = Some([Cached EXCEPT
                                                      !.tasks[task_id].status = "Queued"])
                                  /\ UNCHANGED selection
                  ELSE /\ error_message' = Some("Failed to enqueue task")
                       /\ sent' = <<Call(ReqEnqueue(task_id), FALSE)>>
                       /\ UNCHANGED <<state, selection, run>>
       ELSE NoCall /\ UNCHANGED <<state, selection, error_message>>
    /\ UNCHANGED <<collapsed_groups, logVars, inputVars, confirm_delete>>

EnqueueTask ==
    /\ IF IsSome(SelectedCachedTask)
          /\ Cached.tasks[Unwrap(SelectedCachedTask)].status = "Stashed"
       THEN CallOrBanner(ReqEnqueue(Unwrap(SelectedCachedTask)), "Failed to enqueue task")
       ELSE NoCall /\ UNCHANGED <<state, selection, error_message>>
    /\ UNCHANGED <<collapsed_groups, logVars, inputVars, confirm_delete>>

can_switch(status) == status \in {"Queued", "Stashed"}

\* A faulty SwitchNeighbour: the task at the end of the list on that side.
SwitchNeighbour_end(task_id, offset) ==
    LET tasks == get_task_list(state)
    IN IF \E pos \in 1..Len(tasks) : tasks[pos] = task_id
       THEN LET pos == CHOOSE p \in 1..Len(tasks) : tasks[p] = task_id
            IN IF pos + offset \in 1..Len(tasks)
               THEN Some(tasks[IF offset < 0 THEN 1 ELSE Len(tasks)])
               ELSE None
       ELSE None

\* The neighbour of task_id in get_task_list, `offset` places away, if there is one.
SwitchNeighbour(task_id, offset) ==
    LET tasks == get_task_list(state)
    IN IF \E pos \in 1..Len(tasks) : tasks[pos] = task_id
       THEN LET pos == CHOOSE p \in 1..Len(tasks) : tasks[p] = task_id
            IN IF pos + offset \in 1..Len(tasks) THEN Some(tasks[pos + offset]) ELSE None
       ELSE None

Switch(offset) ==
    LET selected == get_selected_task_id(selection)
        other == IF IsSome(selected) /\ IsSome(state)
                 THEN SwitchNeighbour(Unwrap(selected), offset)
                 ELSE None
    IN /\ IF IsSome(other)
             /\ can_switch(Cached.tasks[Unwrap(selected)].status)
             /\ can_switch(Cached.tasks[Unwrap(other)].status)
          THEN CallOrBanner(ReqSwitch(Unwrap(selected), Unwrap(other)),
                            "Failed to switch tasks")
          ELSE NoCall /\ UNCHANGED <<state, selection, error_message>>
       /\ UNCHANGED <<collapsed_groups, logVars, inputVars, confirm_delete>>

SwitchUp == Switch(-1)
SwitchDown == Switch(1)

IncreaseParallel ==
    LET group_name == get_selected_group(selection)
    IN /\ IF IsSome(state) /\ group_name \in DOMAIN Cached.groups
          THEN CallOrBanner(ReqParallel(group_name,
                                        Cached.groups[group_name].parallel_tasks + 1),
                            "Failed to increase parallel")
          ELSE NoCall /\ UNCHANGED <<state, selection, error_message>>
       /\ UNCHANGED <<collapsed_groups, logVars, inputVars, confirm_delete>>

\* A faulty DecreaseParallel: it lowers whatever limit is cached.
DecreaseParallel_unguarded ==
    LET group_name == get_selected_group(selection)
    IN /\ IF IsSome(state) /\ group_name \in DOMAIN Cached.groups
          THEN CallOrBanner(ReqParallel(group_name,
                                        Cached.groups[group_name].parallel_tasks - 1),
                            "Failed to decrease parallel")
          ELSE NoCall /\ UNCHANGED <<state, selection, error_message>>
       /\ UNCHANGED <<collapsed_groups, logVars, inputVars, confirm_delete>>

DecreaseParallel ==
    LET group_name == get_selected_group(selection)
    IN /\ IF IsSome(state) /\ group_name \in DOMAIN Cached.groups
             /\ Cached.groups[group_name].parallel_tasks > 1
          THEN CallOrBanner(ReqParallel(group_name,
                                        Cached.groups[group_name].parallel_tasks - 1),
                            "Failed to decrease parallel")
          ELSE NoCall /\ UNCHANGED <<state, selection, error_message>>
       /\ UNCHANGED <<collapsed_groups, logVars, inputVars, confirm_delete>>

\* A faulty CollapseGroup: from a task it goes to the parent group and collapses it.
CollapseGroup_parent ==
    /\ IF selection[1] = "Group"
       THEN /\ collapsed_groups' =
                  IF selection[2] \in collapsed_groups
                  THEN collapsed_groups \ {selection[2]}
                  ELSE collapsed_groups \cup {selection[2]}
            /\ UNCHANGED selection
       ELSE /\ selection' = SelGroup(selection[2])
            /\ collapsed_groups' = collapsed_groups \cup {selection[2]}
    /\ NoCall
    /\ UNCHANGED <<state, error_message, logVars, inputVars, confirm_delete>>

CollapseGroup ==
    /\ IF selection[1] = "Group"
       THEN /\ collapsed_groups' =
                  IF selection[2] \in collapsed_groups
                  THEN collapsed_groups \ {selection[2]}
                  ELSE collapsed_groups \cup {selection[2]}
            /\ UNCHANGED selection
       ELSE /\ selection' = SelGroup(selection[2])
            /\ UNCHANGED collapsed_groups
    /\ NoCall
    /\ UNCHANGED <<state, error_message, logVars, inputVars, confirm_delete>>

ExpandGroup ==
    /\ IF selection[1] = "Group"
       THEN /\ IF selection[2] \in collapsed_groups
               THEN /\ collapsed_groups' = collapsed_groups \ {selection[2]}
                    /\ UNCHANGED selection
               ELSE /\ selection' =
                          IF IsSome(state) /\ tasks_in_group(Cached, selection[2]) # <<>>
                          THEN SelTask(selection[2], tasks_in_group(Cached, selection[2])[1])
                          ELSE selection
                    /\ UNCHANGED collapsed_groups
            /\ sent' = <<>>
            /\ UNCHANGED <<logVars, error_message>>
       ELSE /\ OpenLog(selection[3], 0, follow_mode)
            /\ UNCHANGED <<selection, collapsed_groups>>
    /\ UNCHANGED <<state, inputVars, confirm_delete, run>>

Quit ==
    /\ run' = "quit"
    /\ sent' = <<>>
    /\ UNCHANGED <<state, selection, collapsed_groups, error_message, logVars, inputVars,
                   confirm_delete>>

\* The Action enum: its unit variants by name, and InputChar(c).
ActionNames ==
    {"NavigateUp", "NavigateDown", "NavigateTop", "NavigateBottom", "KillTask",
     "TogglePause", "ToggleTaskPause", "Refresh", "ViewLogs", "CloseLogs", "RestartTask",
     "CleanFinished", "FollowLogs", "ScrollLogUp", "ScrollLogDown", "ScrollLogPageUp",
     "ScrollLogPageDown", "StartAddTask", "StartEditTask", "RemoveTask", "SubmitInput",
     "CancelInput", "InputBackspace", "InputDelete", "InputLeft", "InputRight",
     "InputHome", "InputEnd", "StashTask", "EnqueueTask", "SwitchUp", "SwitchDown",
     "IncreaseParallel", "DecreaseParallel", "CollapseGroup", "ExpandGroup",
     "ConfirmAction", "CancelConfirm", "Quit"}
Act(name) == <<name>>
ActInputChar(c) == <<"InputChar", c>>

handle_action(action) ==
    \/ action[1] = "NavigateUp" /\ NavigateUp
    \/ action[1] = "NavigateDown" /\ NavigateDown
    \/ action[1] = "NavigateTop" /\ NavigateTop
    \/ action[1] = "NavigateBottom" /\ NavigateBottom
    \/ action[1] = "KillTask" /\ KillTask
    \/ action[1] = "TogglePause" /\ TogglePause
    \/ action[1] = "ToggleTaskPause" /\ ToggleTaskPause
    \/ action[1] = "Refresh" /\ Refresh
    \/ action[1] = "ViewLogs" /\ ViewLogs
    \/ action[1] = "CloseLogs" /\ CloseLogs
    \/ action[1] = "RestartTask" /\ RestartTask
    \/ action[1] = "CleanFinished" /\ CleanFinished
    \/ action[1] = "FollowLogs" /\ FollowLogs
    \/ action[1] = "ScrollLogUp" /\ ScrollLogUp
    \/ action[1] = "ScrollLogDown" /\ ScrollLogDown
    \/ action[1] = "ScrollLogPageUp" /\ ScrollLogPageUp
    \/ action[1] = "ScrollLogPageDown" /\ ScrollLogPageDown
    \/ action[1] = "StartAddTask" /\ StartAddTask
    \/ action[1] = "StartEditTask" /\ StartEditTask
    \/ action[1] = "RemoveTask" /\ RemoveTask
    \/ action[1] = "SubmitInput" /\ SubmitInput
    \/ action[1] = "CancelInput" /\ CancelInput
    \/ action[1] = "InputChar" /\ InputChar(action[2])
    \/ action[1] = "InputBackspace" /\ InputBackspace
    \/ action[1] = "InputDelete" /\ InputDelete
    \/ action[1] = "InputLeft" /\ InputLeft
    \/ action[1] = "InputRight" /\ InputRight
    \/ action[1] = "InputHome" /\ InputHome
    \/ action[1] = "InputEnd" /\ InputEnd
    \/ action[1] = "StashTask" /\ StashTask
    \/ action[1] = "EnqueueTask" /\ EnqueueTask
    \/ action[1] = "SwitchUp" /\ SwitchUp
    \/ action[1] = "SwitchDown" /\ SwitchDown
    \/ action[1] = "IncreaseParallel" /\ IncreaseParallel
    \/ action[1] = "DecreaseParallel" /\ DecreaseParallel
    \/ action[1] = "CollapseGroup" /\ CollapseGroup
    \/ action[1] = "ExpandGroup" /\ ExpandGroup
    \/ action[1] = "ConfirmAction" /\ ConfirmAction
    \/ action[1] = "CancelConfirm" /\ CancelConfirm
    \/ action[1] = "Quit" /\ Quit

\* ------------------------------------------------------------------ events

\* A KeyEvent: a named key or a character, and whether Control is held.
Key(code) == [kind |-> "Key", code |-> code, ctrl |-> FALSE]
Char(c) == [kind |-> "Char", code |-> c, ctrl |-> FALSE]
Ctrl(c) == [kind |-> "Char", code |-> c, ctrl |-> TRUE]
IsKey(key, code) == key.kind = "Key" /\ key.code = code
IsChar(key, c) == key.kind = "Char" /\ key.code = c

handle_input_mode_key_event(key) ==
    IF IsKey(key, "Enter") THEN Some(Act("SubmitInput"))
    ELSE IF IsKey(key, "Esc") THEN Some(Act("CancelInput"))
    ELSE IF IsKey(key, "Backspace") THEN Some(Act("InputBackspace"))
    ELSE IF IsKey(key, "Delete") THEN Some(Act("InputDelete"))
    ELSE IF IsKey(key, "Left") THEN Some(Act("InputLeft"))
    ELSE IF IsKey(key, "Right") THEN Some(Act("InputRight"))
    ELSE IF IsKey(key, "Home") THEN Some(Act("InputHome"))
    ELSE IF IsKey(key, "End") THEN Some(Act("InputEnd"))
    ELSE IF IsChar(key, "a") /\ key.ctrl THEN Some(Act("InputHome"))
    ELSE IF IsChar(key, "e") /\ key.ctrl THEN Some(Act("InputEnd"))
    ELSE IF IsChar(key, "c") /\ key.ctrl THEN Some(Act("CancelInput"))
    ELSE IF key.kind = "Char" THEN Some(ActInputChar(key.code))
    ELSE None

handle_log_modal_key_event(key) ==
    IF IsKey(key, "Enter") \/ IsKey(key, "Esc") \/ IsChar(key, "q")
    THEN Some(Act("CloseLogs"))
    ELSE IF IsChar(key, "j") \/ IsKey(key, "Down") THEN Some(Act("ScrollLogDown"))
    ELSE IF IsChar(key, "k") \/ IsKey(key, "Up") THEN Some(Act("ScrollLogUp"))
    ELSE IF IsChar(key, "d") /\ key.ctrl THEN Some(Act("ScrollLogPageDown"))
    ELSE IF IsChar(key, "u") /\ key.ctrl THEN Some(Act("ScrollLogPageUp"))
    ELSE IF IsKey(key, "PageDown") THEN Some(Act("ScrollLogPageDown"))
    ELSE IF IsKey(key, "PageUp") THEN Some(Act("ScrollLogPageUp"))
    ELSE IF IsChar(key, "g") THEN Some(Act("ScrollLogUp"))
    ELSE IF IsChar(key, "G") THEN Some(Act("ScrollLogDown"))
    ELSE IF IsChar(key, "f") THEN Some(Act("FollowLogs"))
    ELSE None

handle_confirm_mode_key_event(key) ==
    IF IsChar(key, "y") \/ IsChar(key, "Y") \/ IsKey(key, "Enter")
    THEN Some(Act("ConfirmAction"))
    ELSE Some(Act("CancelConfirm"))

handle_key_event(key) ==
    IF IsChar(key, "c") /\ key.ctrl THEN Some(Act("Quit"))
    ELSE IF IsChar(key, "j") \/ IsKey(key, "Down") THEN Some(Act("NavigateDown"))
    ELSE IF IsChar(key, "k") \/ IsKey(key, "Up") THEN Some(Act("NavigateUp"))
    ELSE IF IsChar(key, "g") THEN Some(Act("NavigateTop"))
    ELSE IF IsChar(key, "G") THEN Some(Act("NavigateBottom"))
    ELSE IF IsChar(key, "K") THEN Some(Act("KillTask"))
    ELSE IF IsChar(key, "p") THEN Some(Act("TogglePause"))
    ELSE IF IsChar(key, " ") THEN Some(Act("ToggleTaskPause"))
    ELSE IF IsChar(key, "r") THEN Some(Act("Refresh"))
    ELSE IF IsChar(key, "R") THEN Some(Act("RestartTask"))
    ELSE IF IsChar(key, "c") THEN Some(Act("CleanFinished"))
    ELSE IF IsChar(key, "a") THEN Some(Act("StartAddTask"))
    ELSE IF IsChar(key, "e") THEN Some(Act("StartEditTask"))
    ELSE IF IsChar(key, "d") \/ IsChar(key, "x") THEN Some(Act("RemoveTask"))
    ELSE IF IsChar(key, "s") THEN Some(Act("StashTask"))
    ELSE IF IsChar(key, "S") THEN Some(Act("EnqueueTask"))
    ELSE IF IsChar(key, "<") THEN Some(Act("SwitchUp"))
    ELSE IF IsChar(key, ">") THEN Some(Act("SwitchDown"))
    ELSE IF IsChar(key, "+") \/ IsChar(key, "=") THEN Some(Act("IncreaseParallel"))
    ELSE IF IsChar(key, "-") \/ IsChar(key, "_") THEN Some(Act("DecreaseParallel"))
    ELSE IF IsChar(key, "h") \/ IsKey(key, "Left") THEN Some(Act("CollapseGroup"))
    ELSE IF IsKey(key, "Enter") \/ IsChar(key, "l") \/ IsKey(key, "Right")
    THEN Some(Act("ExpandGroup"))
    ELSE IF IsChar(key, "f") THEN Some(Act("FollowLogs"))
    ELSE IF IsChar(key, "q") THEN Some(Act("Quit"))
    ELSE None

\* The keys pressed in a checked run: every key a table names, and Tab, which none does.
NamedKeys ==
    {"Enter", "Esc", "Backspace", "Delete", "Left", "Right", "Home", "End", "Up", "Down",
     "PageUp", "PageDown", "Tab"}
CharKeys ==
    {"j", "k", "g", "G", "K", "p", " ", "r", "R", "c", "a", "e", "d", "x", "s", "S", "<",
     ">", "+", "=", "-", "_", "h", "l", "f", "q", "y", "Y", "n", "N", "u"}
CtrlKeys == {"a", "e", "c", "d", "u"}
Keys ==
    {Key(k) : k \in NamedKeys} \cup {Char(c) : c \in CharKeys} \cup {Ctrl(c) : c \in CtrlKeys}

\* -------------------------------------------------------------------- run_app

\* The handler run_app picks for a key, by the controller's mode.
Dispatch(key) ==
    IF IsSome(input_mode) THEN handle_input_mode_key_event(key)
    ELSE IF show_log_modal THEN handle_log_modal_key_event(key)
    ELSE handle_key_event(key)

\* A faulty refresh_logs: the log of a selected task is fetched whether follow mode
\* is on or not.
refresh_logs_always(sel, status_call) ==
    IF IsSome(get_selected_task_id(sel))
    THEN LET task_id == Unwrap(get_selected_task_id(sel))
         IN \E ok \in BOOLEAN :
               /\ sent' = <<status_call, Call(ReqLog(task_id), ok)>>
               /\ IF ok
                  THEN /\ \E content \in LogTexts(task_id) : log_content' = Some(content)
                       /\ log_scroll' = UsizeMax
                  ELSE UNCHANGED <<log_content, log_scroll>>
    ELSE sent' = <<status_call>> /\ UNCHANGED <<log_content, log_scroll>>

\* App::refresh_logs after the refresh of a timer tick, given the selection it reads.
refresh_logs(sel, status_call) ==
    IF follow_mode /\ IsSome(get_selected_task_id(sel))
    THEN LET task_id == Unwrap(get_selected_task_id(sel))
         IN \E ok \in BOOLEAN :
               /\ sent' = <<status_call, Call(ReqLog(task_id), ok)>>
               /\ IF ok
                  THEN /\ \E content \in LogTexts(task_id) : log_content' = Some(content)
                       /\ log_scroll' = UsizeMax
                  ELSE UNCHANGED <<log_content, log_scroll>>
    ELSE sent' = <<status_call>> /\ UNCHANGED <<log_content, log_scroll>>

\* The initial fetch of run_app, before the loop.
InitialFetch ==
    /\ run = "start"
    /\ run' = "loop"
    /\ \E reply \in StatusReplies :
          /\ refresh(reply)
          /\ sent' = <<StatusCall(reply)>>
    /\ UNCHANGED <<collapsed_groups, logVars, inputVars, confirm_delete>>

\* A faulty Timeout: a collapsed group the fetched state does not hold is forgotten.
Timeout_prune ==
    /\ run = "loop"
    /\ \E reply \in StatusReplies :
          /\ refresh(reply)
          /\ refresh_logs(SelectionAfter(reply), StatusCall(reply))
          /\ collapsed_groups' =
                IF IsSome(reply) THEN collapsed_groups \cap DOMAIN Unwrap(reply).groups
                ELSE collapsed_groups
    /\ UNCHANGED <<show_log_modal, follow_mode, inputVars, confirm_delete, run>>

\* event::poll timed out: refresh, then refresh_logs.
Timeout ==
    /\ run = "loop"
    /\ \E reply \in StatusReplies :
          /\ refresh(reply)
          /\ refresh_logs(SelectionAfter(reply), StatusCall(reply))
    /\ UNCHANGED <<collapsed_groups, show_log_modal, follow_mode, inputVars, confirm_delete,
                   run>>

Actions == {Act(name) : name \in ActionNames} \cup {ActInputChar(c) : c \in Chars}

\* The actions each table gives for some key (characters outside Chars are not typed).
InputModeActions == {a \in Actions : \E key \in Keys : handle_input_mode_key_event(key) = Some(a)}
LogModalActions == {a \in Actions : \E key \in Keys : handle_log_modal_key_event(key) = Some(a)}
ConfirmModeActions ==
    {a \in Actions : \E key \in Keys : handle_confirm_mode_key_event(key) = Some(a)}
MainActions == {a \in Actions : \E key \in Keys : handle_key_event(key) = Some(a)}

\* The actions run_app can hand to handle_action: those of the table of Dispatch.
Dispatched ==
    IF IsSome(input_mode) THEN InputModeActions
    ELSE IF show_log_modal THEN LogModalActions
    ELSE MainActions

\* A key was read and the mode's table gave `action` for it.
KeyEvent(action) ==
    /\ run = "loop"
    /\ action \in Dispatched
    /\ handle_action(action)

\* handle_action called with an action of the confirmation table, which run_app
\* never consults.
Intent(action) ==
    /\ run = "loop"
    /\ action \in ConfirmModeActions
    /\ handle_action(action)

\* run_app as it is.
NextLoop ==
    \/ InitialFetch
    \/ Timeout
    \/ \E action \in Actions : KeyEvent(action)

SpecLoop == Init /\ [][NextLoop]_vars

\* The controller behind handle_action: run_app, and the actions of the table it
\* leaves out.
Next ==
    \/ NextLoop
    \/ \E action \in Actions : Intent(action)

Spec == Init /\ [][Next]_vars

\* ------------------------------------------------- projector and reconciliation

\* Every shape of state over GroupNames and TaskIds: any set of groups, any set of
\* tasks, each task in any group (one of the state's or not).  The projector and
\* validate_selection read the keys of groups and the group of each task, nothing
\* else, so the other fields take one value.
Shapes ==
    [groups : UNION {[gs -> {GroupOf("Running", 1)}] : gs \in SUBSET GroupNames},
     tasks : UNION {[ts -> {TaskOf(g, "Queued") : g \in GroupNames}] : ts \in SUBSET TaskIds}]
Selections ==
    {SelGroup(g) : g \in GroupNames} \cup {SelTask(g, id) : g \in GroupNames, id \in TaskIds}

InitPure ==
    /\ state \in {Some(s) : s \in Shapes}
    /\ selection \in Selections
    /\ collapsed_groups \in SUBSET GroupNames
    /\ error_message = None
    /\ show_log_modal = FALSE
    /\ log_content = None
    /\ log_scroll = 0
    /\ follow_mode = FALSE
    /\ input_mode = None
    /\ text_input = TextInput_new
    /\ confirm_delete = None
    /\ sent = <<>>
    /\ run = "fetched"

\* validate_selection on a fetched state, and once more on its result.
Validate ==
    /\ run \in {"fetched", "validated"}
    /\ run' = IF run = "fetched" THEN "validated" ELSE "revalidated"
    /\ selection' = validate_selection(state, collapsed_groups, selection)
    /\ UNCHANGED <<state, collapsed_groups, error_message, logVars, inputVars,
                   confirm_delete, sent>>

SpecPure == InitPure /\ [][Validate]_vars

\* ------------------------------------------------------------ local handlers

\* The actions that call nothing, or the log of a task only: they leave the cached
\* state alone.
LocalActions ==
    {Act(name) : name \in {"NavigateUp", "NavigateDown", "NavigateTop", "NavigateBottom",
                           "CollapseGroup", "ExpandGroup", "FollowLogs", "CloseLogs",
                           "ScrollLogUp", "ScrollLogDown", "ScrollLogPageUp",
                           "ScrollLogPageDown"}}

\* The controller after the initial fetch, whatever the daemon answered.
InitLocal ==
    /\ state \in StatusReplies
    /\ selection = validate_selection(state, {}, SelGroup("default"))
    /\ collapsed_groups = {}
    /\ error_message = None
    /\ show_log_modal = FALSE
    /\ log_content = None
    /\ log_scroll = 0
    /\ follow_mode = FALSE
    /\ input_mode = None
    /\ text_input = TextInput_new
    /\ confirm_delete = None
    /\ sent = <<>>
    /\ run = "loop"

\* handle_action with a local action.
Handle(action) ==
    /\ action \in LocalActions
    /\ handle_action(action)

NextLocal == \E action \in Actions : Handle(action)

SpecLocal == InitLocal /\ [][NextLocal]_vars

\* -------------------------------------------------------- parallel-limit handlers

\* The actions that change the parallel limit of a group, and the ones that move
\* the selection between the groups and tasks they resolve it from.
ParallelActions ==
    {Act(name) : name \in {"NavigateUp", "NavigateDown",
                           "IncreaseParallel", "DecreaseParallel"}}

\* handle_action with one of them, while the loop runs.
HandleParallel(action) ==
    /\ run = "loop"
    /\ action \in ParallelActions
    /\ handle_action(action)

NextParallel == \E action \in Actions : HandleParallel(action)

SpecParallel == InitLocal /\ [][NextParallel]_vars

\* ------------------------------------------------------------- log-viewer session

\* The actions of a session that opens, follows and closes logs: the keys of the
\* log table, and of the main table the ones that select a task and open its log.
LogSessionActions ==
    {Act(name) : name \in {"NavigateUp", "NavigateDown", "ExpandGroup", "FollowLogs",
                           "CloseLogs", "ScrollLogUp", "ScrollLogDown"}}

\* A key of the mode's table that gives one of them.
LogEvent(action) ==
    /\ action \in LogSessionActions
    /\ KeyEvent(action)

\* run_app after the initial fetch, with these keys and the timer.
NextLog ==
    \/ Timeout
    \/ \E action \in Actions : LogEvent(action)

SpecLog == InitLocal /\ [][NextLog]_vars

\* ------------------------------------------------------- requests on the wire

\* The timer branch of run_app step by step: `run` is the place the loop waits at,
\* "loop" in event::poll, "get_state" and "get_log" in receive_response of that
\* client method.  A request that was sent and is not answered yet is recorded
\* with a reply of two words, which no answer is.
Pending(req) == [req |-> req, ok |-> FALSE, reply |-> <<"sent", "unanswered">>]
Outstanding == {i \in 1..Len(sent) : Len(sent[i].reply) = 2}

\* A faulty TimeoutSend: the timer fires wherever the loop waits.
TimeoutSend_anywhere ==
    /\ run \in {"loop", "get_state", "get_log"}
    /\ run' = "get_state"
    /\ sent' = IF run = "loop" THEN <<Pending(ReqStatus)>>
               ELSE Append(sent, Pending(ReqStatus))
    /\ UNCHANGED <<state, selection, collapsed_groups, error_message, logVars, inputVars,
                   confirm_delete>>

\* event::poll timed out: refresh calls get_state, which sends Request::Status.
TimeoutSend ==
    /\ run = "loop"
    /\ run' = "get_state"
    /\ sent' = <<Pending(ReqStatus)>>
    /\ UNCHANGED <<state, selection, collapsed_groups, error_message, logVars, inputVars,
                   confirm_delete>>

\* get_state returns with the answer, refresh takes it, and refresh_logs sends
\* Request::Log if a task is followed.
ReceiveStatus ==
    /\ run = "get_state"
    /\ Outstanding = {Len(sent)}
    /\ \E reply \in StatusReplies :
          /\ refresh(reply)
          /\ LET answered == SubSeq(sent, 1, Len(sent) - 1) \o <<StatusCall(reply)>>
                 task_id == get_selected_task_id(SelectionAfter(reply))
             IN IF follow_mode /\ IsSome(task_id)
                THEN /\ sent' = Append(answered, Pending(ReqLog(Unwrap(task_id))))
                     /\ run' = "get_log"
                ELSE /\ sent' = answered
                     /\ run' = "loop"
    /\ UNCHANGED <<collapsed_groups, logVars, inputVars, confirm_delete>>

\* get_log returns with the answer and refresh_logs takes it.
ReceiveLog ==
    /\ run = "get_log"
    /\ Outstanding = {Len(sent)}
    /\ run' = "loop"
    /\ \E ok \in BOOLEAN :
          /\ sent' = SubSeq(sent, 1, Len(sent) - 1) \o <<Call(sent[Len(sent)].req, ok)>>
          /\ IF ok
             THEN /\ \E content \in LogTexts(sent[Len(sent)].req[2]) :
                        log_content' = Some(content)
                  /\ log_scroll' = UsizeMax
             ELSE UNCHANGED <<log_content, log_scroll>>
    /\ UNCHANGED <<state, selection, collapsed_groups, error_message, show_log_modal,
                   follow_mode, inputVars, confirm_delete>>

\* The keys of a session that follows a log.
WireActions ==
    {Act(name) : name \in {"NavigateUp", "NavigateDown", "FollowLogs", "CloseLogs"}}

WireEvent(action) ==
    /\ action \in WireActions
    /\ KeyEvent(action)

NextWire ==
    \/ TimeoutSend
    \/ ReceiveStatus
    \/ ReceiveLog
    \/ \E action \in Actions : WireEvent(action)

SpecWire == InitLocal /\ [][NextWire]_vars

\* ---------------------------------------------------------------- input session

\* The keys of a session that adds and edits tasks: the ones that select, the ones
\* that open the input line, and the ones of the input table that type, delete,
\* submit and cancel.
EditActions ==
    {Act(name) : name \in {"NavigateUp", "NavigateDown", "StartAddTask", "StartEditTask",
                           "SubmitInput", "CancelInput", "InputBackspace"}}
        \cup {ActInputChar(c) : c \in Chars}

EditEvent(action) ==
    /\ action \in EditActions
    /\ KeyEvent(action)

NextEdit == \E action \in Actions : EditEvent(action)

SpecEdit == InitLocal /\ [][NextEdit]_vars

\* ------------------------------------------------------------ banner recovery

\* The keys of a session whose calls can fail: a fetch, the log of a task, a
\* command on a task, one of them with a failure that ends the session; and the
\* ones that select a task and close the viewer.
LiveActions ==
    {Act(name) : name \in {"NavigateDown", "Refresh", "FollowLogs", "CloseLogs",
                           "StashTask", "EnqueueTask", "KillTask"}}

LiveEvent(action) ==
    /\ action \in LiveActions
    /\ KeyEvent(action)

NextLive ==
    \/ Timeout
    \/ \E action \in Actions : LiveEvent(action)

\* event::poll returns false whenever no key arrives within the poll interval: a
\* loop that waits in it gets its timer tick.
SpecLive == InitLocal /\ [][NextLive]_vars /\ WF_vars(Timeout)

\* -------------------------------------------------------------- text buffer

\* The text buffer on its own: the characters typed include one of two bytes.
TextChars == Chars \cup {"é"}

\* The controller with the add-task prompt just opened.
InitText ==
    /\ state \in StatusReplies
    /\ selection = validate_selection(state, {}, SelGroup("default"))
    /\ collapsed_groups = {}
    /\ error_message = None
    /\ show_log_modal = FALSE
    /\ log_content = None
    /\ log_scroll = 0
    /\ follow_mode = FALSE
    /\ input_mode = Some(InputAddTask)
    /\ text_input = TextInput_new
    /\ confirm_delete = None
    /\ sent = <<>>
    /\ run = "loop"

\* One editing key under the input prompt.  String::insert and String::remove panic
\* when their index is not a character boundary of the text (remove also at its end),
\* and the panic ends the program.
TextEvent ==
    /\ run = "loop"
    /\ IsSome(input_mode)
    /\ \E key \in {"Backspace", "Delete", "Left", "Right", "Home", "End"} \cup TextChars :
          LET t == text_input
              panics ==
                  CASE key \in TextChars -> ~is_char_boundary(t.value, t.cursor)
                    [] key = "Backspace" ->
                          t.cursor > 0 /\ ~is_char_boundary(t.value, t.cursor - 1)
                    [] key = "Delete" ->
                          t.cursor < str_len(t.value) /\ ~is_char_boundary(t.value, t.cursor)
                    [] OTHER -> FALSE
              edited ==
                  CASE key \in TextChars -> TextInput_insert(t, key)
                    [] key = "Backspace" -> TextInput_delete_char(t)
                    [] key = "Delete" -> TextInput_delete_forward(t)
                    [] key = "Left" -> TextInput_move_left(t)
                    [] key = "Right" -> TextInput_move_right(t)
                    [] key = "Home" -> TextInput_move_start(t)
                    [] key = "End" -> TextInput_move_end(t)
          IN /\ key \in TextChars => Len(t.value) < MaxText
             /\ IF panics
                THEN run' = "panic" /\ UNCHANGED text_input
                ELSE text_input' = edited /\ UNCHANGED run
    /\ UNCHANGED <<state, selection, collapsed_groups, error_message, logVars, input_mode,
                   confirm_delete, sent>>

SpecText == InitText /\ [][TextEvent]_vars

\* ---------------------------------------------------------------- switching

\* The keys of a session that reorders tasks.
SwitchActions == {Act(name) : name \in {"NavigateUp", "NavigateDown", "SwitchUp", "SwitchDown"}}

\* The controller after the initial fetch from a daemon that holds any tasks that can
\* be switched, each in any of its groups.
InitSwitch ==
    /\ state \in {Some(s) : s \in {sh \in Shapes :
                      \A id \in DOMAIN sh.tasks : sh.tasks[id].group \in DOMAIN sh.groups}}
    /\ selection = validate_selection(state, {}, SelGroup("default"))
    /\ collapsed_groups = {}
    /\ error_message = None
    /\ show_log_modal = FALSE
    /\ log_content = None
    /\ log_scroll = 0
    /\ follow_mode = FALSE
    /\ input_mode = None
    /\ text_input = TextInput_new
    /\ confirm_delete = None
    /\ sent = <<>>
    /\ run = "loop"

SwitchEvent(action) ==
    /\ action \in SwitchActions
    /\ KeyEvent(action)

SpecSwitch == InitSwitch /\ [][\E action \in Actions : SwitchEvent(action)]_vars

\* ------------------------------------------------------------------ properties

\* The positions of the last step's calls that are Status requests, and those that
\* are requests changing the daemon's state.
Fetches == {i \in 1..Len(sent) : sent[i].req[1] = "Status"}
Mutations == {i \in 1..Len(sent) : sent[i].req[1] \in MutatingKinds}
Tree == get_tree_items(state, collapsed_groups)
\* A Group selection names a header of the items, a Task selection a task row of the
\* same group and id.
Found(sel, items) ==
    \E i \in 1..Len(items) :
        items[i] = IF sel[1] = "Group" THEN ItemGroup(sel[2]) ELSE ItemTask(sel[2], sel[3])

\* C1: after a step that made a refresh (a Status request), whatever handler made
\* it and whether it succeeded or not, a non-empty projected tree holds the
\* selection: a header of the selected group's name, or a task row of the selected
\* task's group and id.
C1_SelectionFound == (Fetches # {} /\ Tree # <<>>) => Found(selection, Tree)

\* A kill of the selected task was followed by a fetch in which the task is gone
\* and other rows are left.
C1_Witness ==
    /\ Len(sent) = 2
    /\ sent[1].req[1] = "Kill" /\ sent[2].req[1] = "Status" /\ sent[2].ok
    /\ sent[1].req[2] \notin DOMAIN Cached.tasks
    /\ Tree # <<>>

\* C2: no failure of a call to the daemon ends the session: handle_action never
\* returns an error to run_app.
C2_NoErrorReturned == run # "error"

\* C3: at most one of the text input mode, the log modal and the pending delete
\* confirmation is active at a time.
C3_OneMode ==
    /\ ~(IsSome(input_mode) /\ show_log_modal)
    /\ ~(IsSome(input_mode) /\ IsSome(confirm_delete))
    /\ ~(show_log_modal /\ IsSome(confirm_delete))

\* The call at position i of the last step is followed at once by a Status request.
FetchFollows(i) == i < Len(sent) /\ sent[i + 1].req[1] = "Status"

C5_RefreshOutcome ==
    [][\A i \in {j \in 1..Len(sent') : sent'[j].req[1] = "Status"} :
          IF sent'[i].ok
          THEN /\ state' = sent'[i].reply
               /\ IsSome(state')
               /\ error_message' = None
          ELSE /\ IsSome(error_message')
               /\ state' = state
               /\ selection' = selection]_vars

\* A fetch failed while a state of some task was cached, and the state is still there
\* under the banner.
C5_Witness ==
    /\ \E i \in Fetches : ~sent[i].ok
    /\ IsSome(error_message)
    /\ IsSome(state) /\ DOMAIN Cached.tasks # {}

\* The first item of a non-empty tree, as a selection.
FirstOf(items) ==
    IF items[1][1] = "GroupItem" THEN SelGroup(items[1][2])
    ELSE SelTask(items[1][2], items[1][3])

\* C6: after a step's successful fetch the selection is the one before the step if
\* the newly projected tree holds it, the first item of the new tree if the tree
\* does not hold it, and Group("default") if the new tree is empty.
C6_Reconciled ==
    [][\A i \in {j \in 1..Len(sent') : sent'[j].req[1] = "Status" /\ sent'[j].ok} :
          LET items == get_tree_items(state', collapsed_groups')
          IN selection' = IF items = <<>> THEN SelGroup("default")
                          ELSE IF Found(selection, items) THEN selection
                          ELSE FirstOf(items)]_vars

\* The selected task was stashed and the fetch that followed no longer has it: the
\* selection is the first item of the new tree.
C6_Witness ==
    /\ Len(sent) = 2
    /\ sent[1].req[1] = "Stash" /\ sent[2].req[1] = "Status" /\ sent[2].ok
    /\ sent[1].req[2] \notin DOMAIN Cached.tasks
    /\ Tree # <<>>
    /\ selection = FirstOf(Tree)

Headers(items) == {i \in 1..Len(items) : items[i][1] = "GroupItem"}
\* The task rows between the header at i and the next header.
RowsAfter(items, i) ==
    {j \in (i + 1)..Len(items) : \A k \in (i + 1)..j : items[k][1] = "TaskItem"}

\* C7: the projected tree of any state and any collapse set has one header for each
\* group of the state and no other, starts with the header of "default" if the
\* state has that group, and has the other headers in lexicographic order; the rows
\* after the header of a group that is not collapsed are the tasks of that group,
\* all of them, by strictly increasing id; no row follows the header of a collapsed
\* group.
C7_Projection ==
    IsSome(state) =>
        LET H == Headers(Tree)
        IN /\ Tree # <<>> => 1 \in H
           /\ \A i \in H : Tree[i][2] \in DOMAIN Cached.groups
           /\ \A g \in DOMAIN Cached.groups : Cardinality({i \in H : Tree[i][2] = g}) = 1
           /\ "default" \in DOMAIN Cached.groups => Tree[1] = ItemGroup("default")
           /\ \A i, j \in H :
                 (i < j /\ Tree[i][2] # "default" /\ Tree[j][2] # "default")
                    => NameRank(Tree[i][2]) < NameRank(Tree[j][2])
           /\ \A i \in H :
                 LET g == Tree[i][2]
                     R == RowsAfter(Tree, i)
                 IN IF g \in collapsed_groups THEN R = {}
                    ELSE /\ \A j \in R : Tree[j][2] = g
                         /\ {Tree[j][3] : j \in R}
                               = {id \in DOMAIN Cached.tasks : Cached.tasks[id].group = g}
                         /\ \A j, k \in R : j < k => Tree[j][3] < Tree[k][3]

\* All three groups, "default" moved to the front of "build", a task under its
\* header and a task hidden under a collapsed one.
C7_Witness ==
    /\ IsSome(state)
    /\ Tree = <<ItemGroup("default"), ItemTask("default", 2), ItemGroup("build"),
                ItemGroup("zeta")>>
    /\ 1 \in DOMAIN Cached.tasks /\ Cached.tasks[1].group = "zeta"
    /\ "zeta" \in collapsed_groups

\* C8: no step sends a Remove request for a task that the state cached when the
\* request is sent has as Running.
C8_NoRemoveOfRunning ==
    [][\A i \in 1..Len(sent') :
          sent'[i].req[1] = "Remove"
             => ~(/\ IsSome(state)
                  /\ sent'[i].req[2] \in DOMAIN Cached.tasks
                  /\ Cached.tasks[sent'[i].req[2]].status = "Running")]_vars

\* C9: RemoveTask with a selected task that the cached state has as Running leaves
\* the pending confirmation as it was and calls nothing; KillTask with a group
\* selected calls nothing and leaves every field of the controller as it was.
C9_Guards ==
    [][/\ (/\ KeyEvent(Act("RemoveTask"))
           /\ IsSome(SelectedCachedTask)
           /\ Cached.tasks[Unwrap(SelectedCachedTask)].status = "Running")
          => (confirm_delete' = confirm_delete /\ sent' = <<>>)
       /\ (KeyEvent(Act("KillTask")) /\ selection[1] = "Group")
          => /\ sent' = <<>>
             /\ UNCHANGED <<state, selection, collapsed_groups, error_message, logVars,
                            inputVars, confirm_delete, run>>]_vars

\* The main table is in force, a task the cached state has as Running is selected,
\* and nothing is pending and nothing was called.
C9_Witness ==
    /\ run = "loop" /\ input_mode = None /\ ~show_log_modal
    /\ IsSome(SelectedCachedTask)
    /\ Cached.tasks[Unwrap(SelectedCachedTask)].status = "Running"
    /\ confirm_delete = None
    /\ sent = <<>>

\* C10: when a step's request that changes the daemon's state was rejected and the
\* handler returned Ok, the banner is set at the end of the step.  (The handlers
\* that return the rejection as Err, with no banner either, are those of C2.)
C10_RejectionBanner ==
    run # "error" => \A i \in Mutations : ~sent[i].ok => IsSome(error_message)

\* The modes of the controller: Normal has none of the three fields set, and each
\* other mode has its field set and no other.
ModeNormal == input_mode = None /\ ~show_log_modal /\ confirm_delete = None
ModeTextInput == IsSome(input_mode) /\ ~show_log_modal /\ confirm_delete = None
ModeLogViewer == input_mode = None /\ show_log_modal /\ confirm_delete = None
ModeConfirmDelete == input_mode = None /\ ~show_log_modal /\ IsSome(confirm_delete)
\* The positions of the calls after the step whose request is of the kind.
SentNext(kind) == {i \in 1..Len(sent') : sent'[i].req[1] = kind}

C12_CancelInput ==
    [][(KeyEvent(Act("CancelInput")) /\ ModeTextInput)
          => /\ IF Unwrap(input_mode)[1] = "EditTask"
                THEN /\ Len(sent') = 1
                     /\ sent'[1].req = <<"EditRestore", Unwrap(input_mode)[2].id>>
                ELSE sent' = <<>>
             /\ error_message' = error_message
             /\ run' = "loop"
             /\ ModeNormal'
             /\ text_input' = [value |-> <<>>, cursor |-> 0]]_vars

\* An edit was cancelled and the daemon refused the restore: no banner, the loop
\* goes on in Normal with an empty buffer.
C12_Witness ==
    /\ Len(sent) = 1 /\ sent[1].req[1] = "EditRestore" /\ ~sent[1].ok
    /\ error_message = None
    /\ run = "loop"
    /\ ModeNormal
    /\ text_input = [value |-> <<>>, cursor |-> 0]

\* C13: RemoveTask with a selected task that the cached state has and has as not
\* Running makes its id the pending confirmation and sends nothing; ConfirmAction
\* with an id pending sends one Remove request, for that id, and leaves nothing
\* pending whether the request succeeds or fails; CancelConfirm leaves nothing
\* pending and sends nothing; a Remove request is sent only for the id that is
\* pending, and an id becomes pending only by RemoveTask.
C13_ConfirmProtocol ==
    [][/\ (/\ KeyEvent(Act("RemoveTask"))
           /\ IsSome(SelectedCachedTask)
           /\ Cached.tasks[Unwrap(SelectedCachedTask)].status # "Running")
          => (confirm_delete' = SelectedCachedTask /\ sent' = <<>>)
       /\ (Intent(Act("ConfirmAction")) /\ IsSome(confirm_delete))
          => /\ sent' # <<>>
             /\ sent'[1].req = <<"Remove", Unwrap(confirm_delete)>>
             /\ Cardinality(SentNext("Remove")) = 1
             /\ confirm_delete' = None
       /\ Intent(Act("CancelConfirm")) => (confirm_delete' = None /\ sent' = <<>>)
       /\ \A i \in SentNext("Remove") : confirm_delete = Some(sent'[i].req[2])
       /\ (IsSome(confirm_delete') /\ confirm_delete' # confirm_delete)
          => KeyEvent(Act("RemoveTask"))]_vars

\* A pending removal was confirmed and the daemon refused it: nothing is pending any
\* more and the banner tells of the failure.
C13_Witness ==
    /\ Len(sent) = 1 /\ sent[1].req[1] = "Remove" /\ ~sent[1].ok
    /\ confirm_delete = None
    /\ error_message = Some("Failed to remove task")

\* The selected task is in the cached state with this status.
SelectedStatusIs(status) ==
    IsSome(SelectedCachedTask) /\ Cached.tasks[Unwrap(SelectedCachedTask)].status = status

\* C14: a Stash request is sent only for the selected task and only when the cached
\* state has it as Queued, an Enqueue request only for the selected task and only
\* when the cached state has it as Stashed; StashTask and EnqueueTask in any other
\* case (another status, a group selected, a task the state does not have) send
\* nothing and leave the banner and the cached state as they were.
C14_StashEnqueueGuards ==
    [][/\ \A i \in SentNext("Stash") :
             SelectedStatusIs("Queued") /\ SelectedCachedTask = Some(sent'[i].req[2])
       /\ \A i \in SentNext("Enqueue") :
             SelectedStatusIs("Stashed") /\ SelectedCachedTask = Some(sent'[i].req[2])
       /\ KeyEvent(Act("StashTask"))
          => IF SelectedStatusIs("Queued")
             THEN sent'[1].req = <<"Stash", Unwrap(SelectedCachedTask)>>
             ELSE sent' = <<>> /\ error_message' = error_message /\ state' = state
       /\ KeyEvent(Act("EnqueueTask"))
          => IF SelectedStatusIs("Stashed")
             THEN sent'[1].req = <<"Enqueue", Unwrap(SelectedCachedTask)>>
             ELSE sent' = <<>> /\ error_message' = error_message /\ state' = state]_vars

\* The selected task was stashed and the fetch that followed has it as Stashed: a
\* second StashTask finds it not Queued.
C14_Witness ==
    /\ Len(sent) = 2
    /\ sent[1].req[1] = "Stash" /\ sent[1].ok /\ sent[2].ok
    /\ SelectedCachedTask = Some(sent[1].req[2])
    /\ SelectedStatusIs("Stashed")
    /\ ModeNormal

\* The ids of the cached tasks below and above the selected task's.
IdsBelow == {id \in DOMAIN Cached.tasks : id < selection[3]}
IdsAbove == {id \in DOMAIN Cached.tasks : id > selection[3]}
Greatest(S) == CHOOSE x \in S : \A y \in S : y <= x
Least(S) == CHOOSE x \in S : \A y \in S : x <= y
\* A task is selected that the cached state has, the side has tasks, and the selected
\* task and the nearest one of the side are both Queued or Stashed.
Switchable(side, nearest) ==
    /\ IsSome(SelectedCachedTask)
    /\ side # {}
    /\ Cached.tasks[selection[3]].status \in {"Queued", "Stashed"}
    /\ Cached.tasks[nearest].status \in {"Queued", "Stashed"}

\* C15: SwitchUp (SwitchDown) sends a Switch request when a task is selected, the
\* cached state has a task of smaller (greater) id, and the selected task and the
\* task of the nearest such id are both Queued or Stashed: the request names the
\* selected id and that id, in this order.  Otherwise it sends nothing and leaves
\* the banner as it was.  No other step sends a Switch request.
C15_SwitchGuards ==
    [][/\ KeyEvent(Act("SwitchUp"))
          => IF Switchable(IdsBelow, Greatest(IdsBelow))
             THEN sent'[1].req = <<"Switch", selection[3], Greatest(IdsBelow)>>
             ELSE sent' = <<>> /\ error_message' = error_message
       /\ KeyEvent(Act("SwitchDown"))
          => IF Switchable(IdsAbove, Least(IdsAbove))
             THEN sent'[1].req = <<"Switch", selection[3], Least(IdsAbove)>>
             ELSE sent' = <<>> /\ error_message' = error_message
       /\ \A i \in SentNext("Switch") :
             /\ i = 1
             /\ \/ /\ Switchable(IdsBelow, Greatest(IdsBelow))
                   /\ sent'[i].req = <<"Switch", selection[3], Greatest(IdsBelow)>>
                \/ /\ Switchable(IdsAbove, Least(IdsAbove))
                   /\ sent'[i].req = <<"Switch", selection[3], Least(IdsAbove)>>]_vars

\* Task 3 was switched with task 2, its neighbour, while task 1 could be switched
\* as well.
C15_Witness ==
    /\ sent # <<>>
    /\ sent[1].req = <<"Switch", 3, 2>>
    /\ sent[1].ok

\* C16 as stated: ToggleTaskPause on a selected task that the cached state has as
\* Done or Locked is a no-op: it calls nothing and changes no field.
C16_TerminalNoOp ==
    [][(/\ KeyEvent(Act("ToggleTaskPause"))
        /\ (SelectedStatusIs("Done") \/ SelectedStatusIs("Locked")))
          => /\ sent' = <<>>
             /\ UNCHANGED <<state, selection, collapsed_groups, error_message, logVars,
                            inputVars, confirm_delete, run>>]_vars

\* C16: ToggleTaskPause on a selected task of the cached state sends, first, the
\* start of the task when it is Paused, Queued or Stashed and the pause of the task
\* when it is Running, and no request that changes the daemon's state when it is
\* Done or Locked; in every case a Status request ends the step, and the three mode
\* fields are as they were.
C16_ToggleTaskPause ==
    [][(KeyEvent(Act("ToggleTaskPause")) /\ IsSome(SelectedCachedTask))
          => LET task_id == Unwrap(SelectedCachedTask)
                 status == Cached.tasks[task_id].status
             IN /\ IF status \in {"Paused", "Queued", "Stashed"}
                   THEN Len(sent') = 2 /\ sent'[1].req = <<"StartTasks", task_id>>
                   ELSE IF status = "Running"
                   THEN Len(sent') = 2 /\ sent'[1].req = <<"PauseTasks", task_id>>
                   ELSE Len(sent') = 1
                /\ sent'[Len(sent')].req[1] = "Status"
                /\ UNCHANGED <<input_mode, show_log_modal, confirm_delete>>]_vars

\* The pause of the selected task was sent and a Status request ended the step; the
\* state it fetched still has the task, selected, and the mode is Normal.
C16_Witness ==
    /\ Len(sent) = 2
    /\ sent[1].req[1] = "PauseTasks" /\ sent[2].req[1] = "Status" /\ sent[2].ok
    /\ SelectedCachedTask = Some(sent[1].req[2])
    /\ ModeNormal

\* An item as a selection, and the place of the selection among the items that hold it.
SelOf(item) == IF item[1] = "GroupItem" THEN SelGroup(item[2]) ELSE SelTask(item[2], item[3])
PlaceOf(sel, items) == CHOOSE i \in 1..Len(items) : SelOf(items[i]) = sel

\* C17: with the selection in the projected tree, NavigateUp selects the item right
\* before it and changes nothing when it is the first, NavigateDown selects the
\* item right after it and changes nothing when it is the last; NavigateTop and
\* NavigateBottom select the first and the last item of a tree that is not empty.
\* None of them sends a request or changes the tree.
C17_Navigation ==
    [][/\ Handle(Act("NavigateUp"))
          => /\ sent' = <<>> /\ UNCHANGED <<state, collapsed_groups>>
             /\ Found(selection, Tree)
                => LET place == PlaceOf(selection, Tree)
                   IN selection' = IF place = 1 THEN selection ELSE SelOf(Tree[place - 1])
       /\ Handle(Act("NavigateDown"))
          => /\ sent' = <<>> /\ UNCHANGED <<state, collapsed_groups>>
             /\ Found(selection, Tree)
                => LET place == PlaceOf(selection, Tree)
                   IN selection' = IF place = Len(Tree) THEN selection
                                   ELSE SelOf(Tree[place + 1])
       /\ Handle(Act("NavigateTop"))
          => /\ sent' = <<>> /\ UNCHANGED <<state, collapsed_groups>>
             /\ Tree # <<>> => selection' = SelOf(Tree[1])
       /\ Handle(Act("NavigateBottom"))
          => /\ sent' = <<>> /\ UNCHANGED <<state, collapsed_groups>>
             /\ Tree # <<>> => selection' = SelOf(Tree[Len(Tree)])]_vars

\* The tree of the example, with Group("build") selected: where NavigateUp from
\* Task("build", 2) lands.
C17_Witness ==
    /\ Tree = <<ItemGroup("default"), ItemTask("default", 1), ItemGroup("build"),
                ItemTask("build", 2)>>
    /\ selection = SelGroup("build")
    /\ sent = <<>>
    /\ ModeNormal

\* The ids of the cached tasks of the selected group.
IdsOfSelectedGroup ==
    IF IsSome(state) THEN {id \in DOMAIN Cached.tasks : Cached.tasks[id].group = selection[2]}
    ELSE {}

\* C18: CollapseGroup with a task selected selects the task's group and leaves the
\* collapsed set as it was; with a group selected it leaves the selection and puts
\* the group into the collapsed set if it was out and out if it was in, and no other
\* group.  ExpandGroup with a collapsed group selected takes it out of the collapsed
\* set; with a group selected that is not collapsed and has tasks it selects the
\* task of the group with the least id; with a task selected it asks for the log of
\* that task, and the answer opens the log viewer at the top.
C18_CollapseExpand ==
    [][/\ Handle(Act("CollapseGroup"))
          => /\ sent' = <<>>
             /\ IF selection[1] = "Task"
                THEN /\ selection' = SelGroup(selection[2])
                     /\ collapsed_groups' = collapsed_groups
                ELSE /\ selection' = selection
                     /\ (collapsed_groups' \ collapsed_groups)
                           \cup (collapsed_groups \ collapsed_groups') = {selection[2]}
       /\ Handle(Act("ExpandGroup"))
          => IF selection[1] = "Group"
             THEN /\ sent' = <<>>
                  /\ IF selection[2] \in collapsed_groups
                     THEN /\ collapsed_groups' = collapsed_groups \ {selection[2]}
                          /\ selection' = selection
                     ELSE /\ collapsed_groups' = collapsed_groups
                          /\ IdsOfSelectedGroup # {}
                             => selection' = SelTask(selection[2], Least(IdsOfSelectedGroup))
             ELSE /\ Len(sent') = 1
                  /\ sent'[1].req = <<"Log", selection[3]>>
                  /\ sent'[1].ok => (show_log_modal' /\ IsSome(log_content') /\ log_scroll' = 0)
                  /\ UNCHANGED <<selection, collapsed_groups>>]_vars

\* The log of the selected task was asked for and the viewer is open at the top,
\* while a group of the tree is collapsed.
C18_Witness ==
    /\ Len(sent) = 1 /\ sent[1].req[1] = "Log" /\ sent[1].ok
    /\ selection[1] = "Task" /\ sent[1].req[2] = selection[3]
    /\ show_log_modal /\ log_scroll = 0 /\ ~follow_mode
    /\ collapsed_groups # {}

\* C19: a ScrollLogUp or ScrollLogPageUp step leaves the log offset between zero and
\* what it was, and at zero when less than the step was left; a ScrollLogDown or
\* ScrollLogPageDown step leaves it between what it was and the greatest offset, and
\* at the greatest offset when less than the step was left above it.
C19_ScrollFloor ==
    [][/\ Handle(Act("ScrollLogUp"))
          => /\ 0 <= log_scroll' /\ log_scroll' <= log_scroll
             /\ log_scroll < 1 => log_scroll' = 0
       /\ Handle(Act("ScrollLogPageUp"))
          => /\ 0 <= log_scroll' /\ log_scroll' <= log_scroll
             /\ log_scroll < PageSize => log_scroll' = 0
       /\ Handle(Act("ScrollLogDown"))
          => /\ log_scroll <= log_scroll' /\ log_scroll' <= UsizeMax
             /\ log_scroll > UsizeMax - 1 => log_scroll' = UsizeMax
       /\ Handle(Act("ScrollLogPageDown"))
          => /\ log_scroll <= log_scroll' /\ log_scroll' <= UsizeMax
             /\ log_scroll > UsizeMax - PageSize => log_scroll' = UsizeMax]_vars

\* The viewer was sent to the end of a followed log and scrolled up by one line
\* from there: the offset next to the greatest one.
C19_Witness ==
    /\ show_log_modal /\ follow_mode
    /\ log_scroll = UsizeMax - 1

\* The parallel limit cached for the group of the selection, if one is cached.
CachedLimit ==
    IF IsSome(state) /\ selection[2] \in DOMAIN Cached.groups
    THEN Some(Cached.groups[selection[2]].parallel_tasks)
    ELSE None

\* C20: a DecreaseParallel step sends nothing when no limit is cached for the group
\* of the selection or the cached limit is 1 or less, and otherwise first sends a
\* Parallel request for that group with the cached limit less one, which is 1 or
\* more.  An IncreaseParallel step sends nothing when no limit is cached for the
\* group, and otherwise first sends a Parallel request for that group with the
\* cached limit plus one.
C20_ParallelFloor ==
    [][/\ HandleParallel(Act("DecreaseParallel"))
          => IF IsSome(CachedLimit) /\ CachedLimit[1] > 1
             THEN /\ Len(sent') >= 1
                  /\ sent'[1].req = <<"Parallel", selection[2], CachedLimit[1] - 1>>
                  /\ sent'[1].req[3] >= 1
                  /\ \A i \in 2..Len(sent') : sent'[i].req[1] # "Parallel"
             ELSE sent' = <<>>
       /\ HandleParallel(Act("IncreaseParallel"))
          => IF IsSome(CachedLimit)
             THEN /\ Len(sent') >= 1
                  /\ sent'[1].req = <<"Parallel", selection[2], CachedLimit[1] + 1>>
                  /\ \A i \in 2..Len(sent') : sent'[i].req[1] # "Parallel"
             ELSE sent' = <<>>]_vars

\* A limit of 2 was lowered to 1 for the group of a selected task, and the state
\* fetched after it shows the limit of 1.
C20_Witness ==
    /\ Len(sent) = 2
    /\ sent[1].req[1] = "Parallel" /\ sent[1].req[3] = 1 /\ sent[1].ok
    /\ sent[2].ok
    /\ selection[1] = "Task" /\ selection[2] = sent[1].req[2]
    /\ CachedLimit = Some(1)

LogStateWithViewer ==
    /\ IsSome(log_content) <=> show_log_modal
    /\ follow_mode => show_log_modal

\* C22: in every state of a session log text is held exactly when the viewer is
\* shown and follow mode is on only when the viewer is shown; a CloseLogs step
\* sends nothing and leaves the viewer closed, no text, the offset 0 and follow
\* mode off.
C22_LogStateOnlyWhileOpen ==
    /\ []LogStateWithViewer
    /\ [][LogEvent(Act("CloseLogs"))
             => /\ sent' = <<>>
                /\ ~show_log_modal' /\ log_content' = None
                /\ log_scroll' = 0 /\ ~follow_mode']_vars

\* A followed log was fetched again by a timer tick: the viewer is shown with the
\* new text, pinned to the end.
C22_Witness ==
    /\ show_log_modal /\ follow_mode /\ IsSome(log_content)
    /\ Len(sent) = 2 /\ sent[2].req[1] = "Log" /\ sent[2].ok
    /\ log_scroll = UsizeMax

\* C23: a step that changes the collapsed set is a CollapseGroup or ExpandGroup
\* step with a group selected, and it sends nothing; so every step with a Status
\* request, answered or failed, and every other action leaves the set as it was,
\* also when the fetched state no longer holds a collapsed group.
C23_CollapsedIsLocal ==
    [][collapsed_groups' # collapsed_groups
          => /\ selection[1] = "Group"
             /\ sent' = <<>>
             /\ KeyEvent(Act("CollapseGroup")) \/ KeyEvent(Act("ExpandGroup"))]_vars

\* A state was fetched that does not hold a group of the collapsed set, and the
\* group is still in the set.
C23_Witness ==
    /\ IsSome(state)
    /\ \E i \in Fetches : sent[i].ok
    /\ \E g \in collapsed_groups : g \notin DOMAIN Cached.groups

\* C24: for every selection, state and collapse set, validate_selection applied to
\* the selection validate_selection gave, with the same state and collapse set,
\* gives that selection again.
C24_Idempotent ==
    [][run = "validated" /\ run' = "revalidated" => selection' = selection]_vars

\* validate_selection was applied twice with a state that has a collapsed
\* group, and the selection it gave is a task.
C24_Witness ==
    /\ run = "revalidated"
    /\ Tree # <<>>
    /\ \E g \in collapsed_groups : g \in DOMAIN Cached.groups
    /\ selection[1] = "Task"

\* C25: at most one request is unanswered in any state, it is the last one sent,
\* and the loop then waits in the client method that sent it.  While a request is
\* unanswered no key is handled and no timer tick starts; the step taken answers
\* that request, once, with a response or a failure, and whatever it sends comes
\* after the answer.
C25_Serial ==
    /\ [](/\ Cardinality(Outstanding) <= 1
          /\ Outstanding \subseteq {Len(sent)}
          /\ Outstanding # {} <=> run \in {"get_state", "get_log"})
    /\ [][Outstanding # {}
            => /\ ~TimeoutSend
               /\ ~(\E action \in WireActions : WireEvent(action))
               /\ Len(sent') >= Len(sent)
               /\ \A i \in 1..Len(sent) :
                     /\ sent'[i].req = sent[i].req
                     /\ Len(sent'[i].reply) # 2
                     /\ i \notin Outstanding => sent'[i] = sent[i]]_vars

\* A timer tick ran to its end with a followed log: the Status request was answered
\* before the Log request was sent, and both are answered when the loop polls again.
C25_Witness ==
    /\ run = "loop"
    /\ Len(sent) = 2 /\ Outstanding = {}
    /\ sent[1].req[1] = "Status" /\ sent[2].req[1] = "Log"
    /\ follow_mode

\* The Status requests of the step that were answered with a state.
FetchedNext == {i \in 1..Len(sent') : sent'[i].req[1] = "Status" /\ sent'[i].ok}

\* C26: a step without a successful fetch leaves the cached state as it was,
\* whatever commands it sent and whether they succeeded; a step with a successful
\* fetch leaves as cached state the state fetched last, whole.
C26_SnapshotOnlyByRefresh ==
    [][IF FetchedNext = {} THEN state' = state
       ELSE state' = sent'[Greatest(FetchedNext)].reply]_vars

\* An enqueue succeeded and the fetch after it failed: the cached state still shows
\* the task as Stashed.
C26_Witness ==
    /\ Len(sent) = 2
    /\ sent[1].req[1] = "Enqueue" /\ sent[1].ok
    /\ sent[2].req[1] = "Status" /\ ~sent[2].ok
    /\ IsSome(state)
    /\ Cached.tasks[sent[1].req[2]].status = "Stashed"

\* C27: a StartEditTask step with a task selected sends one EditRequest for that
\* task.  When it is answered, the mode is TextInput with the editable task of that
\* id, and the buffer holds the command of that editable task with the cursor at
\* its end; when it fails, the banner is set and the mode is Normal with the buffer
\* as it was.  With a group selected the step sends nothing and changes nothing.
C27_StartEditTask ==
    [][EditEvent(Act("StartEditTask"))
          => IF selection[1] = "Task"
             THEN /\ Len(sent') = 1
                  /\ sent'[1].req = <<"EditRequest", selection[3]>>
                  /\ IF sent'[1].ok
                     THEN /\ ModeTextInput'
                          /\ input_mode'[1][1] = "EditTask"
                          /\ input_mode'[1][2].id = selection[3]
                          /\ text_input'.value = input_mode'[1][2].original_command
                          /\ text_input'.cursor = Len(text_input'.value)
                     ELSE /\ IsSome(error_message')
                          /\ ModeNormal'
                          /\ text_input' = text_input
             ELSE /\ sent' = <<>>
                  /\ UNCHANGED <<state, selection, collapsed_groups, error_message, logVars,
                                 inputVars, confirm_delete, run>>]_vars

\* The edit of a task was granted: the buffer holds its command, which is not
\* empty, with the cursor behind it.
C27_Witness ==
    /\ Len(sent) = 1 /\ sent[1].req[1] = "EditRequest" /\ sent[1].ok
    /\ IsSome(input_mode) /\ input_mode[1][1] = "EditTask"
    /\ text_input.value = input_mode[1][2].original_command
    /\ text_input.cursor = Len(text_input.value)
    /\ text_input.cursor > 0

\* The mutating calls of the step that failed.
FailedNext == {i \in 1..Len(sent') : sent'[i].req[1] \in MutatingKinds /\ ~sent'[i].ok}

\* C28: a step with a mutating call that failed leaves the mode (input mode, viewer
\* shown, pending confirmation), the text buffer, the selection, the collapsed set,
\* the cached state and the log state as they were before the step.
C28_FailureOnlyBanner ==
    [][FailedNext # {}
          => UNCHANGED <<input_mode, show_log_modal, confirm_delete, text_input, selection,
                         collapsed_groups, state, log_content, log_scroll,
                         follow_mode>>]_vars

\* Every call of the step was answered with success.
AllAnswered == \A i \in 1..Len(sent') : sent'[i].ok

\* C29: in a session whose timer ticks keep occurring, if from some point on no
\* call of any step fails, a banner that is set is eventually cleared; and every
\* step with a fetch that succeeded ends without banner, so the first one after
\* the banner was set clears it.
C29_BannerRecovers ==
    /\ [][FetchedNext # {} => error_message' = None]_vars
    /\ ([]<>(run = "loop") /\ <>[][AllAnswered]_vars)
          => (IsSome(error_message) ~> error_message = None)

\* The fetch of a timer tick failed while a log was followed: the banner is set
\* and stands until a fetch succeeds.
C29_Witness ==
    /\ IsSome(error_message)
    /\ Len(sent) = 2
    /\ sent[1].req[1] = "Status" /\ ~sent[1].ok
    /\ sent[2].req[1] = "Log"

\* C30: the controller as created, before run_app fetches anything, has no cached
\* state, no banner, the viewer closed without text, at offset 0 and not following,
\* no input mode, an empty buffer with the cursor at 0, no pending confirmation, no
\* collapsed group, and Group("default") selected.
C30_FreshController ==
    run = "start"
        => /\ state = <<>>
           /\ error_message = <<>>
           /\ ~show_log_modal /\ log_content = <<>> /\ log_scroll = 0 /\ ~follow_mode
           /\ input_mode = <<>>
           /\ text_input.value = <<>> /\ text_input.cursor = 0
           /\ confirm_delete = <<>>
           /\ collapsed_groups = {}
           /\ selection = <<"Group", "default">>

\* The controller was created and nothing was asked of the daemon yet.
C30_Witness ==
    /\ run = "start"
    /\ sent = <<>>
    /\ ModeNormal

\* C31: a TogglePause step with the group of the selection (the selected group, or
\* the group of the selected task) in the cached state first sends StartGroup for
\* that group if it is cached as Paused and PauseGroup for that group otherwise,
\* then sends a Status request, and leaves input mode, viewer and pending
\* confirmation as they were.
C31_TogglePause ==
    [][(/\ IsSome(state)
        /\ selection[2] \in DOMAIN Cached.groups
        /\ KeyEvent(Act("TogglePause")))
          => /\ Len(sent') = 2
             /\ sent'[1].req = <<IF Cached.groups[selection[2]].status = "Paused"
                                 THEN "StartGroup" ELSE "PauseGroup", selection[2]>>
             /\ sent'[2].req = <<"Status">>
             /\ UNCHANGED <<input_mode, show_log_modal, confirm_delete>>]_vars

\* C32: a step that ends the mode TextInput(Edit) sends an EditedTasks or an
\* EditRestore request for the task whose edit was granted.
C32_EditClosed ==
    [][(/\ IsSome(input_mode)
        /\ input_mode[1][1] = "EditTask"
        /\ input_mode' = <<>>)
          => \E i \in 1..Len(sent') :
                /\ sent'[i].req[1] \in {"EditedTasks", "EditRestore"}
                /\ sent'[i].req[2] = input_mode[1][2].id]_vars

\* C33: while a delete confirmation is pending, the actions run_app can hand to
\* handle_action for a key are those of the confirmation table, ConfirmAction and
\* CancelConfirm, and no other.
C33_ConfirmKeys ==
    IsSome(confirm_delete) => Dispatched = ConfirmModeActions

\* C34: in every reachable state of the text buffer, typed characters of any encoded
\* width included, the cursor is between 0 and the length of the text and lies on a
\* character boundary, and no edit operation has failed.
C34_CursorOnBoundary ==
    /\ text_input.cursor \in 0..str_len(text_input.value)
    /\ is_char_boundary(text_input.value, text_input.cursor)
    /\ run # "panic"

\* C35: once a snapshot has been fetched, in every reachable state the selection is
\* one of the items of the projected tree whenever that tree is not empty; a selected
\* task is never inside a collapsed group.
C35_SelectionValid ==
    (IsSome(state) /\ Tree # <<>>) =>
        /\ Found(selection, Tree)
        /\ selection[1] = "Task" => selection[2] \notin collapsed_groups

\* A refresh has just answered while a group is collapsed and a task of another group
\* is selected.
C35_Witness ==
    /\ IsSome(state)
    /\ collapsed_groups # {}
    /\ selection[1] = "Task"
    /\ \E i \in Fetches : sent[i].ok

\* C36: every Switch request is made by SwitchUp or SwitchDown with a task selected,
\* and names the selected task and the task next to it in the order of task ids: the
\* nearest lower id of the snapshot for SwitchUp, the nearest higher id for SwitchDown.
C36_SwitchNeighbourById ==
    [][\A i \in 1..Len(sent') :
          sent'[i].req[1] = "Switch" =>
              /\ KeyEvent(Act("SwitchUp")) \/ KeyEvent(Act("SwitchDown"))
              /\ IsSome(state) /\ selection[1] = "Task"
              /\ sent'[i].req[2] = selection[3]
              /\ sent'[i].req[3] \in DOMAIN Cached.tasks
              /\ sent'[i].req[3] # selection[3]
              /\ KeyEvent(Act("SwitchUp")) => sent'[i].req[3] < selection[3]
              /\ KeyEvent(Act("SwitchDown")) => sent'[i].req[3] > selection[3]
              /\ \A id \in DOMAIN Cached.tasks :
                    ~(id > Least({selection[3], sent'[i].req[3]})
                      /\ id < Greatest({selection[3], sent'[i].req[3]}))]_vars

\* C36 as stated: the two tasks of every Switch request belong to the same group and
\* are shown next to each other in the projected tree.
C36_SwitchSameGroup ==
    [][\A i \in 1..Len(sent') :
          sent'[i].req[1] = "Switch" =>
              /\ Cached.tasks[sent'[i].req[2]].group = Cached.tasks[sent'[i].req[3]].group
              /\ \E p \in 1..Len(Tree) - 1 :
                    {Tree[p], Tree[p + 1]} =
                        {ItemTask(Cached.tasks[id].group, id) :
                            id \in {sent'[i].req[2], sent'[i].req[3]}}]_vars

\* Task 1 was switched with task 2 by SwitchDown and the daemon answered.
C36_Witness ==
    /\ Len(sent) = 2
    /\ sent[1].req = <<"Switch", 1, 2>>
    /\ sent[1].ok
    /\ sent[2].req = <<"Status">>

\* C37: in every state in which the log viewer is shown the selection is a task and
\* the text held is the log of that task, timer ticks with the viewer open included.
C37_ViewerShowsSelected ==
    show_log_modal =>
        /\ selection[1] = "Task"
        /\ IsSome(log_content)
        /\ log_content[1][2] = selection[3]

\* C38: in every reachable state of the event loop in which no input mode is active
\* the text buffer is empty with its cursor at 0.
C38_BufferEmptyOutsideInput ==
    input_mode = None => (text_input.value = <<>> /\ text_input.cursor = 0)

\* An edit was cancelled: the prompt, which held the task's command, is closed and
\* the restore request was sent.
C38_Witness ==
    /\ input_mode = None
    /\ Len(sent) = 1
    /\ sent[1].req[1] = "EditRestore"
    /\ text_input = TextInput_new

\* C39: a refresh, by the Refresh key or by a timer tick, in whatever mode, leaves the
\* input mode, the text buffer and its cursor, the pending confirmation, the collapsed
\* set and the log modal flag as they were; the Refresh key leaves the log text, the
\* scroll offset and follow mode alone as well.
C39_RefreshFrame ==
    [][/\ (Timeout \/ KeyEvent(Act("Refresh")))
            => UNCHANGED <<input_mode, text_input, confirm_delete, collapsed_groups,
                           show_log_modal, follow_mode>>
       /\ KeyEvent(Act("Refresh")) => UNCHANGED <<log_content, log_scroll>>]_vars

\* A timer tick fetched a snapshot while the prompt was open with text typed and a
\* group collapsed.
C39_Witness ==
    /\ IsSome(input_mode)
    /\ text_input.value # <<>>
    /\ collapsed_groups # {}
    /\ Len(sent) = 1 /\ sent[1].req = <<"Status">> /\ sent[1].ok

\* C40: a timer tick sends a Status request and then, exactly when follow mode is on
\* and a task is selected once the refresh is done, a request for the log of that
\* task.  An answered log request replaces the text with that task's log and pins the
\* offset to the end; a failed one leaves text and offset as they were, and the
\* banner is what the refresh alone made it.  Without a log request text and offset
\* are unchanged.
C40_TickFollows ==
    [][Timeout =>
          /\ Len(sent') \in {1, 2}
          /\ sent'[1].req = <<"Status">>
          /\ Len(sent') = 2 <=> (follow_mode /\ selection'[1] = "Task")
          /\ IsSome(error_message') <=> ~sent'[1].ok
          /\ IF Len(sent') = 2
             THEN /\ sent'[2].req = <<"Log", selection'[3]>>
                  /\ IF sent'[2].ok
                     THEN /\ IsSome(log_content')
                          /\ log_content'[1] \in LogTexts(selection'[3])
                          /\ log_scroll' = UsizeMax
                     ELSE UNCHANGED <<log_content, log_scroll>>
             ELSE UNCHANGED <<log_content, log_scroll>>]_vars

\* A tick in follow mode fetched the snapshot and failed to fetch the log: the viewer
\* keeps its text and there is no banner.
C40_Witness ==
    /\ show_log_modal /\ follow_mode /\ IsSome(log_content)
    /\ Len(sent) = 2
    /\ sent[1].req = <<"Status">> /\ sent[1].ok
    /\ sent[2].req[1] = "Log" /\ ~sent[2].ok
    /\ error_message = None

====
